---- MODULE Spec2Model ----
(***************************************************************************)
(* colcon: the colour-space graph and its dispatcher (src/src/lib.rs).     *)
(*                                                                         *)
(* A caller holds a flat buffer `input` and a pair of spaces (src, dst)    *)
(* and calls the public entry points on a copy of that buffer, one call    *)
(* after the other.  A call is followed step by step: every activation of  *)
(* convert_space_chunked compares its `from` with `to`, picks a match arm, *)
(* runs the arm's edge function over the pixels one by one and recurses.   *)
(*                                                                         *)
(* Channel values are terms: an input element is an atom, and an edge      *)
(* function applied to a pixel yields, per channel it writes, the term     *)
(* (function, channel, argument pixel).  Two values are equal exactly when *)
(* the same functions were applied in the same order to the same inputs.   *)
(***************************************************************************)
EXTENDS Integers, Sequences, FiniteSets, TLC

VARIABLES
    input,      \* the caller's data, a flat sequence of channel values
    src,        \* the space the caller's data is in
    dst,        \* the space the caller wants
    ncalls,     \* calls started so far
    out,        \* what each completed call left behind
    entry,      \* the entry point of the call in progress
    fromArg,    \* convert_space_ffi: the `from` C string (or NULL)
    toArg,      \* convert_space_ffi: the `to` C string (or NULL)
    pixNull,    \* convert_space_ffi: whether `pixels` is the null pointer
    ret,        \* convert_space_ffi: the status code returned
    from,       \* the call's `from: Space`
    to,         \* the call's `to: Space`
    nch,        \* elements per pixel of the call's buffer
    buf,        \* the call's buffer (the caller's memory)
    chunk,      \* convert_space_sliced: chunks already converted
    base,       \* offset in buf of the pixel convert_space works on
    pixels,     \* the slice the running convert_space_chunked works on
    cur,        \* `from` of the innermost convert_space_chunked activation
    edge,       \* the edge function of the match arm taken
    next,       \* the space the arm recurses with ("-" when it does not)
    idx,        \* pixels the arm's for_each has already visited
    path,       \* edge functions applied by the walk in progress
    visited,    \* the spaces the walk's pixels have been in, in order
    space,      \* the space the walk's pixels are in, by the edges' documentation
    pc,         \* position: idle, walk, apply, ret, done, panic
    str,        \* string under test
    shown,      \* the space last formatted into str
    parsed      \* the result of the last Space::try_from

vars == <<input, src, dst, ncalls, out, entry, fromArg, toArg, pixNull, ret,
          from, to, nch, buf, chunk, base, pixels, cur, edge, next, idx, path,
          visited, space, pc, str, shown, parsed>>

callVars == <<entry, fromArg, toArg, pixNull, ret, from, to, nch, buf, chunk, base>>
walkVars == <<pixels, cur, edge, next, idx, path, visited, space>>
strVars  == <<str, shown, parsed>>
harnessVars == <<input, src, dst, ncalls, out>>

----------------------------------------------------------------------------
(* Bounds of the model.                                                    *)

\* longest flat buffer the caller passes
MaxLen == 6
\* longest flat buffer of four-channel pixels the caller passes
MaxLenAlpha == 8
\* calls the caller makes on one buffer
MaxCalls == 2
\* edge applications after which a walk is cut off
MaxPath == 7

----------------------------------------------------------------------------
(* Space and its ordering.                                                 *)

\* Space::ALL, in declaration order
ALL == <<"SRGB", "HSV", "LRGB", "XYZ", "CIELAB", "CIELCH",
         "OKLAB", "OKLCH", "JZAZBZ", "JZCZHZ">>

Space == {ALL[i] : i \in 1..Len(ALL)}

\* a partial_cmp that forgets HSV in the XYZ arm
partial_cmp_xyz_forgets_hsv(self, other) ==
    IF self = other THEN "Equal"
    ELSE CASE self = "SRGB" -> "Less"
           [] self \in {"HSV", "CIELCH", "OKLCH", "JZCZHZ"} -> "Greater"
           [] self = "LRGB" ->
                IF other \in {"SRGB", "HSV"} THEN "Greater" ELSE "Less"
           [] self = "XYZ" ->
                IF other \in {"SRGB", "LRGB"} THEN "Greater" ELSE "Less"
           [] self = "CIELAB" -> IF other = "CIELCH" THEN "Less" ELSE "Greater"
           [] self = "OKLAB" -> IF other = "OKLCH" THEN "Less" ELSE "Greater"
           [] self = "JZAZBZ" -> IF other = "JZCZHZ" THEN "Less" ELSE "Greater"

\* a partial_cmp without the early return for equal spaces
partial_cmp_no_equal(self, other) ==
    CASE self = "SRGB" -> "Less"
      [] self \in {"HSV", "CIELCH", "OKLCH", "JZCZHZ"} -> "Greater"
      [] self = "LRGB" ->
           IF other \in {"SRGB", "HSV"} THEN "Greater" ELSE "Less"
      [] self = "XYZ" ->
           IF other \in {"SRGB", "LRGB", "HSV"} THEN "Greater" ELSE "Less"
      [] self = "CIELAB" -> IF other = "CIELCH" THEN "Less" ELSE "Greater"
      [] self = "OKLAB" -> IF other = "OKLCH" THEN "Less" ELSE "Greater"
      [] self = "JZAZBZ" -> IF other = "JZCZHZ" THEN "Less" ELSE "Greater"

\* a partial_cmp whose LRGB arm ranks LRGB above XYZ
partial_cmp_lrgb_above_xyz(self, other) ==
    IF self = other THEN "Equal"
    ELSE CASE self = "SRGB" -> "Less"
           [] self \in {"HSV", "CIELCH", "OKLCH", "JZCZHZ"} -> "Greater"
           [] self = "LRGB" ->
                IF other \in {"SRGB", "HSV", "XYZ"} THEN "Greater" ELSE "Less"
           [] self = "XYZ" ->
                IF other \in {"SRGB", "LRGB", "HSV"} THEN "Greater" ELSE "Less"
           [] self = "CIELAB" -> IF other = "CIELCH" THEN "Less" ELSE "Greater"
           [] self = "OKLAB" -> IF other = "OKLCH" THEN "Less" ELSE "Greater"
           [] self = "JZAZBZ" -> IF other = "JZCZHZ" THEN "Less" ELSE "Greater"

\* impl PartialOrd for Space: the Ordering inside the Some(..) it returns
partial_cmp(self, other) ==
    IF self = other THEN "Equal"
    ELSE CASE self = "SRGB" -> "Less"
           [] self \in {"HSV", "CIELCH", "OKLCH", "JZCZHZ"} -> "Greater"
           [] self = "LRGB" ->
                IF other \in {"SRGB", "HSV"} THEN "Greater" ELSE "Less"
           [] self = "XYZ" ->
                IF other \in {"SRGB", "LRGB", "HSV"} THEN "Greater" ELSE "Less"
           [] self = "CIELAB" -> IF other = "CIELCH" THEN "Less" ELSE "Greater"
           [] self = "OKLAB" -> IF other = "OKLCH" THEN "Less" ELSE "Greater"
           [] self = "JZAZBZ" -> IF other = "JZCZHZ" THEN "Less" ELSE "Greater"

\* `a > b` and `a < b` as PartialOrd derives them from partial_cmp
Gt(a, b) == partial_cmp(a, b) = "Greater"
Lt(a, b) == partial_cmp(a, b) = "Less"

----------------------------------------------------------------------------
(* The match arms of convert_space_chunked.                                *)

Recurse(fn, sp) == [kind |-> "recurse", fn |-> fn, next |-> sp]
Last(fn)        == [kind |-> "last", fn |-> fn, next |-> "-"]
Return          == [kind |-> "return", fn |-> "-", next |-> "-"]
Unreachable     == [kind |-> "unreachable", fn |-> "-", next |-> "-"]

\* a descent whose OKLCH arm recurses with CIELAB, the space of another arm
Descend_oklch_into_cielab(f) ==
    CASE f = "SRGB"   -> Unreachable
      [] f = "HSV"    -> Recurse("hsv_to_srgb", "SRGB")
      [] f = "LRGB"   -> Recurse("lrgb_to_srgb", "SRGB")
      [] f = "XYZ"    -> Recurse("xyz_to_lrgb", "LRGB")
      [] f = "CIELAB" -> Recurse("lab_to_xyz", "XYZ")
      [] f = "CIELCH" -> Recurse("lch_to_lab", "CIELAB")
      [] f = "OKLAB"  -> Recurse("oklab_to_xyz", "XYZ")
      [] f = "OKLCH"  -> Recurse("lch_to_lab", "CIELAB")
      [] f = "JZAZBZ" -> Recurse("jzazbz_to_xyz", "XYZ")
      [] f = "JZCZHZ" -> Recurse("lch_to_lab", "JZAZBZ")

\* the arms of `if from > to { match from { .. } }`
Descend(f) ==
    CASE f = "SRGB"   -> Unreachable
      [] f = "HSV"    -> Recurse("hsv_to_srgb", "SRGB")
      [] f = "LRGB"   -> Recurse("lrgb_to_srgb", "SRGB")
      [] f = "XYZ"    -> Recurse("xyz_to_lrgb", "LRGB")
      [] f = "CIELAB" -> Recurse("lab_to_xyz", "XYZ")
      [] f = "CIELCH" -> Recurse("lch_to_lab", "CIELAB")
      [] f = "OKLAB"  -> Recurse("oklab_to_xyz", "XYZ")
      [] f = "OKLCH"  -> Recurse("lch_to_lab", "OKLAB")
      [] f = "JZAZBZ" -> Recurse("jzazbz_to_xyz", "XYZ")
      [] f = "JZCZHZ" -> Recurse("lch_to_lab", "JZAZBZ")

\* the arms of `else if from < to { match from { .. } }`
Ascend(f, t) ==
    CASE f \in {"HSV", "CIELCH", "OKLCH", "JZCZHZ"} -> Unreachable
      [] f = "SRGB" ->
           IF t = "HSV" THEN Last("srgb_to_hsv")
           ELSE Recurse("srgb_to_lrgb", "LRGB")
      [] f = "LRGB" -> Recurse("lrgb_to_xyz", "XYZ")
      [] f = "XYZ" ->
           CASE t \in {"CIELAB", "CIELCH"} -> Recurse("xyz_to_lab", "CIELAB")
             [] t \in {"OKLAB", "OKLCH"}   -> Recurse("xyz_to_oklab", "OKLAB")
             [] t \in {"JZAZBZ", "JZCZHZ"} -> Recurse("xyz_to_jzazbz", "JZAZBZ")
             [] OTHER -> Unreachable
      [] f \in {"CIELAB", "OKLAB", "JZAZBZ"} -> Last("lab_to_lch")

\* one activation of convert_space_chunked(f, t, ..): the arm it takes
Arm(f, t) ==
    IF Gt(f, t) THEN Descend(f)
    ELSE IF Lt(f, t) THEN Ascend(f, t)
    ELSE Return

----------------------------------------------------------------------------
(* Channel values and the edge functions.                                  *)

\* the i-th element of the caller's data
Atom(i) == [f |-> "in", c |-> i, a |-> <<>>]

\* channel c of what edge function fn computes from pixel p
Term(fn, c, p) == [f |-> fn, c |-> c, a |-> p]

\* the edge functions that copy channel 0 (pixel[0]) through
KeepsL == {"lab_to_lch", "lch_to_lab"}

\* an edge function that leaves the pixel as it found it
ApplyEdge_skipped(fn, pixel) == pixel

\* `fn(pixel)` on a [f32; 3]: the pixel the edge function leaves
ApplyEdge(fn, pixel) ==
    << IF fn \in KeepsL THEN pixel[1] ELSE Term(fn, 0, pixel),
       Term(fn, 1, pixel),
       Term(fn, 2, pixel) >>


\* the same on a pixel of any length, as the specification has it:
\* channels 0..2 are rewritten, an alpha channel behind them is not touched
ApplyEdgeN(fn, pixel) ==
    ApplyEdge(fn, SubSeq(pixel, 1, 3)) \o SubSeq(pixel, 4, Len(pixel))

----------------------------------------------------------------------------
(* Buffers.                                                                *)

\* the n elements of b behind offset off
PixelAt(b, off, n) == SubSeq(b, off + 1, off + n)

\* b with the elements behind offset off overwritten by p
PutPixel(b, off, p) ==
    [i \in 1..Len(b) |-> IF off < i /\ i <= off + Len(p) THEN p[i - off] ELSE b[i]]

\* the whole n-element chunks of b
Chunks(b, n) == [k \in 1..(Len(b) \div n) |-> PixelAt(b, (k - 1) * n, n)]

\* the elements of b behind its last whole n-element chunk
Remainder(b, n) == SubSeq(b, (Len(b) \div n) * n + 1, Len(b))

\* pixels of n elements each, laid out one after the other
Flatten(ps, n) ==
    [i \in 1..(Len(ps) * n) |-> ps[((i - 1) \div n) + 1][((i - 1) % n) + 1]]

\* chunks_exact_mut(3) aligned to the end of the buffer (rchunks_exact_mut)
ChunkBaseFromEnd(len, k) == (len % 3) + 3 * k

\* chunks_exact_mut(3): offset of chunk k (0-based) in a buffer of len elements
ChunkBase(len, k) == 3 * k

\* chunks_exact_mut(3): the number of chunks
NumChunks(len) == len \div 3

\* a sub-slice taken one element too far
alpha_slice_shifted(off) == off + 1

\* convert_space_alpha: where pixel.get_unchecked_mut(0..3) starts, for the
\* four-element pixel at offset off
alpha_slice(off) == off

----------------------------------------------------------------------------
(* Strings: sequences of one-character strings.                            *)

UpperChars == <<"A","B","C","D","E","F","G","H","I","J","K","L","M",
                "N","O","P","Q","R","S","T","U","V","W","X","Y","Z">>
LowerChars == <<"a","b","c","d","e","f","g","h","i","j","k","l","m",
                "n","o","p","q","r","s","t","u","v","w","x","y","z">>

\* u8::to_ascii_lowercase
LowerChar(c) ==
    IF \E i \in 1..26 : UpperChars[i] = c
    THEN LowerChars[CHOOSE i \in 1..26 : UpperChars[i] = c]
    ELSE c

\* str::to_ascii_lowercase
to_ascii_lowercase(s) == [i \in 1..Len(s) |-> LowerChar(s[i])]

\* the white space str::trim removes, as far as the inputs here hold any
WhiteSpace == {" ", "\t", "\n"}

RECURSIVE trim_start(_)
trim_start(s) ==
    IF s # <<>> /\ Head(s) \in WhiteSpace THEN trim_start(Tail(s)) ELSE s

RECURSIVE trim_end(_)
trim_end(s) ==
    IF s # <<>> /\ s[Len(s)] \in WhiteSpace
    THEN trim_end(SubSeq(s, 1, Len(s) - 1))
    ELSE s

\* a trim that leaves the white space at the end
trim_leading_only(s) == trim_start(s)

\* str::trim
trim(s) == trim_end(trim_start(s))

Ok(v) == [ok |-> TRUE, v |-> v]
Err   == [ok |-> FALSE, v |-> "-"]

\* a try_from that compares without lowering the case first
TryFromCaseSensitive(value) ==
    LET s == trim(value) IN
    CASE s = <<"s","r","g","b">> -> Ok("SRGB")
      [] s = <<"h","s","v">> -> Ok("HSV")
      [] s \in { <<"l","r","g","b">>, <<"r","g","b">> } -> Ok("LRGB")
      [] s \in { <<"x","y","z">>, <<"c","i","e"," ","x","y","z">>,
                 <<"c","i","e","x","y","z">> } -> Ok("XYZ")
      [] s \in { <<"l","a","b">>, <<"c","i","e"," ","l","a","b">>,
                 <<"c","i","e","l","a","b">> } -> Ok("CIELAB")
      [] s \in { <<"l","c","h">>, <<"c","i","e"," ","l","c","h">>,
                 <<"c","i","e","l","c","h">> } -> Ok("CIELCH")
      [] s = <<"o","k","l","a","b">> -> Ok("OKLAB")
      [] s = <<"o","k","l","c","h">> -> Ok("OKLCH")
      [] s = <<"j","z","a","z","b","z">> -> Ok("JZAZBZ")
      [] s = <<"j","z","c","z","h","z">> -> Ok("JZCZHZ")
      [] OTHER -> Err

\* impl TryFrom<&str> for Space
TryFrom(value) ==
    LET s == trim(to_ascii_lowercase(value)) IN
    CASE s = <<"s","r","g","b">> -> Ok("SRGB")
      [] s = <<"h","s","v">> -> Ok("HSV")
      [] s \in { <<"l","r","g","b">>, <<"r","g","b">> } -> Ok("LRGB")
      [] s \in { <<"x","y","z">>, <<"c","i","e"," ","x","y","z">>,
                 <<"c","i","e","x","y","z">> } -> Ok("XYZ")
      [] s \in { <<"l","a","b">>, <<"c","i","e"," ","l","a","b">>,
                 <<"c","i","e","l","a","b">> } -> Ok("CIELAB")
      [] s \in { <<"l","c","h">>, <<"c","i","e"," ","l","c","h">>,
                 <<"c","i","e","l","c","h">> } -> Ok("CIELCH")
      [] s = <<"o","k","l","a","b">> -> Ok("OKLAB")
      [] s = <<"o","k","l","c","h">> -> Ok("OKLCH")
      [] s = <<"j","z","a","z","b","z">> -> Ok("JZAZBZ")
      [] s = <<"j","z","c","z","h","z">> -> Ok("JZCZHZ")
      [] OTHER -> Err

\* impl Display for Space
to_string(self) ==
    CASE self = "SRGB"   -> <<"s","R","G","B">>
      [] self = "HSV"    -> <<"H","S","V">>
      [] self = "LRGB"   -> <<"R","G","B">>
      [] self = "XYZ"    -> <<"C","I","E"," ","X","Y","Z">>
      [] self = "CIELAB" -> <<"C","I","E"," ","L","A","B">>
      [] self = "CIELCH" -> <<"C","I","E"," ","L","C","H">>
      [] self = "OKLAB"  -> <<"O","k","l","a","b">>
      [] self = "OKLCH"  -> <<"O","k","l","c","h">>
      [] self = "JZAZBZ" -> <<"J","z","A","z","B","z">>
      [] self = "JZCZHZ" -> <<"J","z","C","z","H","z">>


----------------------------------------------------------------------------
(* The arguments of convert_space_ffi.                                     *)

NullPtr   == [null |-> TRUE, bytes |-> <<>>]
CStrOf(s) == [null |-> FALSE, bytes |-> s]

\* a byte no UTF-8 text holds
BadByte == "0xFF"

\* CStr::from_ptr(p).to_str().ok().map(|s| Space::try_from(s).ok()).flatten()
ffi_space(p) ==
    IF \E i \in 1..Len(p.bytes) : p.bytes[i] = BadByte
    THEN Err
    ELSE TryFrom(p.bytes)

\* a validation without the null check on `pixels`
ffi_status_no_pixels_check(f, t, pn) ==
    IF f.null \/ ~ffi_space(f).ok THEN 1
    ELSE IF t.null \/ ~ffi_space(t).ok THEN 2
    ELSE 0

\* a validation that looks at `to` before it looks at `from`
ffi_status_to_first(f, t, pn) ==
    IF t.null \/ ~ffi_space(t).ok THEN 2
    ELSE IF f.null \/ ~ffi_space(f).ok THEN 1
    ELSE IF pn THEN 3
    ELSE 0

\* convert_space_ffi: the early returns, 0 when none is taken
ffi_status(f, t, pn) ==
    IF f.null \/ ~ffi_space(f).ok THEN 1
    ELSE IF t.null \/ ~ffi_space(t).ok THEN 2
    ELSE IF pn THEN 3
    ELSE 0

\* the strings the caller passes for a space: its Display form, a string
\* that names no space, bytes that are no UTF-8, or no string at all
FfiArgs(sp) ==
    { NullPtr, CStrOf(to_string(sp)), CStrOf(<<"n","o","p","e">>),
      CStrOf(<<"r","g","b",BadByte>>) }

----------------------------------------------------------------------------
(* The state between calls.                                                *)

NoResult == [set |-> FALSE, buf |-> <<>>, ret |-> 0, k |-> 0]

\* the entry points whose results the caller keeps to compare them
Compared == {"pixel", "chunked", "sliced", "ffi"}

NoParse == [ok |-> FALSE, v |-> "?"]

CallIdle ==
    /\ entry = "-" /\ fromArg = NullPtr /\ toArg = NullPtr /\ pixNull = FALSE
    /\ ret = 0 /\ from = "-" /\ to = "-" /\ nch = 3 /\ buf = <<>>
    /\ chunk = 0 /\ base = 0

WalkIdle ==
    /\ pixels = <<>> /\ cur = "-" /\ edge = "-" /\ next = "-" /\ idx = 0
    /\ path = <<>> /\ visited = <<>> /\ space = "-"

StrIdle == str = <<>> /\ shown = "-" /\ parsed = NoParse

\* the caller's buffer holds up to n elements, in any of the spaces
InitLen(n) ==
    /\ \E l \in 0..n : input = [i \in 1..l |-> Atom(i)]
    /\ src \in Space
    /\ dst \in Space
    /\ ncalls = 0
    /\ out = [e \in Compared |-> NoResult]
    /\ CallIdle
    /\ WalkIdle
    /\ StrIdle
    /\ pc = "idle"

Init == InitLen(MaxLen)

InitAlpha == InitLen(MaxLenAlpha)

----------------------------------------------------------------------------
(* The documented edges: (source space, edge function, target space).      *)

DocEdges ==
    { <<"SRGB", "srgb_to_hsv", "HSV">>,        <<"HSV", "hsv_to_srgb", "SRGB">>,
      <<"SRGB", "srgb_to_lrgb", "LRGB">>,      <<"LRGB", "lrgb_to_srgb", "SRGB">>,
      <<"LRGB", "lrgb_to_xyz", "XYZ">>,        <<"XYZ", "xyz_to_lrgb", "LRGB">>,
      <<"XYZ", "xyz_to_lab", "CIELAB">>,       <<"CIELAB", "lab_to_xyz", "XYZ">>,
      <<"XYZ", "xyz_to_oklab", "OKLAB">>,      <<"OKLAB", "oklab_to_xyz", "XYZ">>,
      <<"XYZ", "xyz_to_jzazbz", "JZAZBZ">>,    <<"JZAZBZ", "jzazbz_to_xyz", "XYZ">>,
      <<"CIELAB", "lab_to_lch", "CIELCH">>,    <<"CIELCH", "lch_to_lab", "CIELAB">>,
      <<"OKLAB", "lab_to_lch", "OKLCH">>,      <<"OKLCH", "lch_to_lab", "OKLAB">>,
      <<"JZAZBZ", "lab_to_lch", "JZCZHZ">>,    <<"JZCZHZ", "lch_to_lab", "JZAZBZ">> }

EdgeFns == {e[2] : e \in DocEdges}

\* the space pixels of space s are in after fn ran over them; "?" when fn
\* is no edge out of s
DocTarget(s, fn) ==
    IF \E e \in DocEdges : e[1] = s /\ e[2] = fn
    THEN (CHOOSE e \in DocEdges : e[1] = s /\ e[2] = fn)[3]
    ELSE "?"

----------------------------------------------------------------------------
(* The walk: convert_space_chunked and its recursion.                      *)

\* convert_space_chunked(f, t, ..) followed through its recursion, at most
\* n activations deep: the edge functions it applies, in order
RECURSIVE WalkEdges(_, _, _)
WalkEdges(f, t, n) ==
    LET a == Arm(f, t) IN
    CASE a.kind = "return" -> <<>>
      [] a.kind = "unreachable" -> <<"unreachable">>
      [] a.kind = "last" -> <<a.fn>>
      [] OTHER -> IF n = 0 THEN <<a.fn>> ELSE <<a.fn>> \o WalkEdges(a.next, t, n - 1)

\* the spaces the pixels are in along that walk, f first
RECURSIVE WalkSpaces(_, _, _)
WalkSpaces(f, t, n) ==
    LET a == Arm(f, t) IN
    CASE a.kind = "return" -> <<f>>
      [] a.kind = "unreachable" -> <<f, "?">>
      [] a.kind = "last" -> <<f, DocTarget(f, a.fn)>>
      [] OTHER -> IF n = 0 THEN <<f, a.next>> ELSE <<f>> \o WalkSpaces(a.next, t, n - 1)

\* a call that starts with the edges the call before it selected
StartWalk_keeps_path(ps, f) ==
    /\ pixels' = ps
    /\ cur' = f
    /\ edge' = "-"
    /\ next' = "-"
    /\ idx' = 0
    /\ path' = path
    /\ visited' = <<f>>
    /\ space' = f
    /\ pc' = "walk"

\* a call of convert_space_chunked(f, to, ps) from an entry point
StartWalk(ps, f) ==
    /\ pixels' = ps
    /\ cur' = f
    /\ edge' = "-"
    /\ next' = "-"
    /\ idx' = 0
    /\ path' = <<>>
    /\ visited' = <<f>>
    /\ space' = f
    /\ pc' = "walk"

\* the entry points that hand their own buffer to convert_space_chunked
InPlace == {"chunked", "chunkedN", "slicedN"}

\* an activation compares `from` with `to` and takes its arm
Select ==
    /\ pc = "walk"
    /\ Len(path) < MaxPath
    /\ LET a == Arm(cur, to) IN
         CASE a.kind = "return" ->
                /\ pc' = "ret"
                /\ UNCHANGED <<edge, next, idx, path>>
           [] a.kind = "unreachable" ->
                /\ pc' = "panic"
                /\ UNCHANGED <<edge, next, idx, path>>
           [] OTHER ->
                /\ edge' = a.fn
                /\ next' = a.next
                /\ idx' = 0
                /\ path' = Append(path, a.fn)
                /\ pc' = "apply"
    /\ UNCHANGED <<pixels, cur, visited, space>>
    /\ UNCHANGED <<harnessVars, callVars, strVars>>

\* pixels.iter_mut().for_each(|pixel| edge(pixel)): one pixel
Apply ==
    /\ pc = "apply"
    /\ idx < Len(pixels)
    /\ pixels' = [pixels EXCEPT ![idx + 1] =
                    IF nch = 3 THEN ApplyEdge(edge, @) ELSE ApplyEdgeN(edge, @)]
    /\ idx' = idx + 1
    /\ buf' = IF entry \in InPlace
              THEN Flatten(pixels', nch) \o Remainder(buf, nch)
              ELSE buf
    /\ UNCHANGED <<cur, edge, next, path, visited, space, pc>>
    /\ UNCHANGED <<entry, fromArg, toArg, pixNull, ret, from, to, nch, chunk, base>>
    /\ UNCHANGED <<harnessVars, strVars>>

\* the for_each is over: the arm recurses with its next space, or ends
Advance ==
    /\ pc = "apply"
    /\ idx = Len(pixels)
    /\ space' = DocTarget(space, edge)
    /\ visited' = Append(visited, space')
    /\ IF next = "-"
       THEN pc' = "ret" /\ cur' = cur
       ELSE pc' = "walk" /\ cur' = next
    /\ UNCHANGED <<pixels, edge, next, idx, path>>
    /\ UNCHANGED <<harnessVars, callVars, strVars>>


----------------------------------------------------------------------------
(* The entry points.                                                       *)

\* what every call starts with
Enter(e, f, t, n) ==
    /\ pc = "idle"
    /\ ncalls < MaxCalls
    /\ e \in Compared => ~out[e].set
    /\ ncalls' = ncalls + 1
    /\ entry' = e
    /\ from' = f
    /\ to' = t
    /\ nch' = n
    /\ buf' = input
    /\ UNCHANGED <<input, src, dst, out, strVars>>

\* a convert_space that never copies its result back
convert_space_return_no_copy(b, off, ps) == b

\* convert_space: `let mut pixels = [*pixel]` for the pixel at offset off
convert_space_enter(b, off) == <<PixelAt(b, off, 3)>>

\* convert_space: `*pixel = pixels[0]`
convert_space_return(b, off, ps) == PutPixel(b, off, ps[1])

\* convert_space_chunked(src, dst, pixels) on the whole buffer
CallChunked ==
    /\ Len(input) % 3 = 0
    /\ Enter("chunked", src, dst, 3)
    /\ StartWalk(Chunks(input, 3), src)
    /\ chunk' = 0 /\ base' = 0
    /\ UNCHANGED <<fromArg, toArg, pixNull, ret>>

\* convert_space(src, dst, pixel) on the k-th pixel of the buffer
CallPixel ==
    \E k \in 0..(Len(input) \div 3) - 1 :
        /\ Enter("pixel", src, dst, 3)
        /\ base' = 3 * k
        /\ StartWalk(convert_space_enter(input, 3 * k), src)
        /\ chunk' = 0
        /\ UNCHANGED <<fromArg, toArg, pixNull, ret>>

\* convert_space_alpha(src, dst, pixel) on the k-th four-element pixel
CallAlpha ==
    \E k \in 0..(Len(input) \div 4) - 1 :
        /\ Enter("alpha", src, dst, 3)
        /\ base' = alpha_slice(4 * k)
        /\ StartWalk(convert_space_enter(input, alpha_slice(4 * k)), src)
        /\ chunk' = 0
        /\ UNCHANGED <<fromArg, toArg, pixNull, ret>>

\* chunks_exact_mut(3).for_each(|pixel| convert_space(f, t, ..)): the first
\* chunk, or the end of the loop when there is none
SlicedLoop(f) ==
    /\ chunk' = 0
    /\ base' = ChunkBase(Len(input), 0)
    /\ IF NumChunks(Len(input)) = 0
       THEN pc' = "done" /\ UNCHANGED walkVars
       ELSE StartWalk(convert_space_enter(input, ChunkBase(Len(input), 0)), f)

\* convert_space_sliced(src, dst, pixels)
CallSliced ==
    /\ Enter("sliced", src, dst, 3)
    /\ SlicedLoop(src)
    /\ UNCHANGED <<fromArg, toArg, pixNull, ret>>

\* convert_space_ffi(from, to, pixels, len)
CallFfi ==
    /\ pc = "idle"
    /\ \E f \in FfiArgs(src), t \in FfiArgs(dst), pn \in BOOLEAN :
        LET status == ffi_status(f, t, pn) IN
        /\ fromArg' = f
        /\ toArg' = t
        /\ pixNull' = pn
        /\ ret' = status
        /\ IF status # 0
           THEN /\ Enter("ffi", "-", "-", 3)
                /\ pc' = "done"
                /\ chunk' = 0 /\ base' = 0
                /\ UNCHANGED walkVars
           ELSE /\ Enter("ffi", ffi_space(f).v, ffi_space(t).v, 3)
                /\ SlicedLoop(ffi_space(f).v)

\* convert_space_chunked returned to the entry point that called it
Ret ==
    /\ pc = "ret"
    /\ CASE entry \in InPlace ->
              /\ pc' = "done"
              /\ UNCHANGED <<buf, chunk, base, walkVars>>
         [] entry \in {"pixel", "alpha"} ->
              /\ buf' = convert_space_return(buf, base, pixels)
              /\ pc' = "done"
              /\ UNCHANGED <<chunk, base, walkVars>>
         [] entry \in {"sliced", "ffi"} ->
              /\ buf' = convert_space_return(buf, base, pixels)
              /\ chunk' = chunk + 1
              /\ IF chunk + 1 < NumChunks(Len(buf))
                 THEN /\ base' = ChunkBase(Len(buf), chunk + 1)
                      /\ StartWalk(convert_space_enter(buf', base'), from)
                 ELSE /\ pc' = "done"
                      /\ UNCHANGED <<base, walkVars>>
    /\ UNCHANGED <<entry, fromArg, toArg, pixNull, ret, from, to, nch>>
    /\ UNCHANGED <<harnessVars, strVars>>

\* the call is over: the caller keeps the result and is free to call again
Finish ==
    /\ pc = "done"
    /\ out' = IF entry \in Compared
              THEN [out EXCEPT ![entry] =
                      [set |-> TRUE, buf |-> buf, ret |-> ret, k |-> base]]
              ELSE out
    /\ entry' = "-" /\ fromArg' = NullPtr /\ toArg' = NullPtr /\ pixNull' = FALSE
    /\ ret' = 0 /\ from' = "-" /\ to' = "-" /\ nch' = 3 /\ buf' = <<>>
    /\ chunk' = 0 /\ base' = 0
    /\ pixels' = <<>> /\ cur' = "-" /\ edge' = "-" /\ next' = "-" /\ idx' = 0
    /\ path' = <<>> /\ visited' = <<>> /\ space' = "-"
    /\ pc' = "idle"
    /\ UNCHANGED <<input, src, dst, ncalls, strVars>>

----------------------------------------------------------------------------
(* Pixels with an alpha channel, as the specification has them: every      *)
(* entry point and every edge function also takes pixels of four channels. *)

\* convert_space_chunked on four-channel pixels
CallChunkedN ==
    /\ Len(input) % 4 = 0
    /\ Enter("chunkedN", src, dst, 4)
    /\ StartWalk(Chunks(input, 4), src)
    /\ chunk' = 0 /\ base' = 0
    /\ UNCHANGED <<fromArg, toArg, pixNull, ret>>

\* convert_space_sliced with four channels per pixel: the flat buffer is
\* taken as the chunked form, the remainder is left out
CallSlicedN ==
    /\ Enter("slicedN", src, dst, 4)
    /\ chunk' = 0 /\ base' = 0
    /\ IF Len(input) \div 4 = 0
       THEN pc' = "done" /\ UNCHANGED walkVars
       ELSE StartWalk(Chunks(input, 4), src)
    /\ UNCHANGED <<fromArg, toArg, pixNull, ret>>

\* an edge function called on the k-th four-channel pixel
CallEdgeN ==
    \E fn \in EdgeFns, k \in 0..(Len(input) \div 4) - 1 :
        /\ pc = "idle"
        /\ ncalls < MaxCalls
        /\ ncalls' = ncalls + 1
        /\ entry' = "edgeN"
        /\ nch' = 4
        /\ base' = 4 * k
        /\ edge' = fn
        /\ buf' = PutPixel(input, 4 * k, ApplyEdgeN(fn, PixelAt(input, 4 * k, 4)))
        /\ pc' = "done"
        /\ UNCHANGED <<fromArg, toArg, pixNull, ret, from, to, chunk>>
        /\ UNCHANGED <<pixels, cur, next, idx, path, visited, space>>
        /\ UNCHANGED <<input, src, dst, out, strVars>>


----------------------------------------------------------------------------
(* The caller and the dispatcher.                                          *)

\* the caller converts its buffer through the three native entry points
Next ==
    \/ CallChunked
    \/ CallPixel
    \/ CallSliced
    \/ Select
    \/ Apply
    \/ Advance
    \/ Ret
    \/ Finish

Spec == Init /\ [][Next]_vars

\* the caller converts its buffer through the C interface and through
\* convert_space_sliced
NextFfi ==
    \/ CallFfi
    \/ CallSliced
    \/ Select
    \/ Apply
    \/ Advance
    \/ Ret
    \/ Finish

FfiSpec == Init /\ [][NextFfi]_vars

\* the caller's buffer holds pixels with an alpha channel
NextAlpha ==
    \/ CallAlpha
    \/ CallChunkedN
    \/ CallSlicedN
    \/ CallEdgeN
    \/ Select
    \/ Apply
    \/ Advance
    \/ Ret
    \/ Finish

AlphaSpec == InitAlpha /\ [][NextAlpha]_vars

\* one chunked call, which runs on once it has started
NextWalk ==
    \/ CallChunked
    \/ Select
    \/ Apply
    \/ Advance
    \/ Ret
    \/ Finish

WalkSpec == Init /\ [][NextWalk]_vars /\ WF_vars(Select \/ Apply \/ Advance \/ Ret)

----------------------------------------------------------------------------
(* Space names: Display and try_from on their own.                         *)

UpperChar(c) ==
    IF \E i \in 1..26 : LowerChars[i] = c
    THEN UpperChars[CHOOSE i \in 1..26 : LowerChars[i] = c]
    ELSE c

Upper(s) == [i \in 1..Len(s) |-> UpperChar(s[i])]

\* the names try_from knows, and a few it does not
Names ==
    { <<"s","r","g","b">>, <<"h","s","v">>, <<"l","r","g","b">>, <<"r","g","b">>,
      <<"x","y","z">>, <<"c","i","e"," ","x","y","z">>, <<"c","i","e","x","y","z">>,
      <<"l","a","b">>, <<"c","i","e"," ","l","a","b">>, <<"c","i","e","l","a","b">>,
      <<"l","c","h">>, <<"c","i","e"," ","l","c","h">>, <<"c","i","e","l","c","h">>,
      <<"o","k","l","a","b">>, <<"o","k","l","c","h">>,
      <<"j","z","a","z","b","z">>, <<"j","z","c","z","h","z">>,
      <<>>, <<"s","r","g">>, <<"c","i","e">>, <<"o","k"," ","l","a","b">>,
      <<"h","s","l">>, <<"s"," ","r","g","b">> }

Pads == { <<>>, <<" ">>, <<"\t", " ">>, <<"\n">> }

StrInputs ==
    { l \o c \o r : l \in Pads, r \in Pads,
                    c \in Names \cup {Upper(n) : n \in Names}
                               \cup {to_string(sp) : sp \in Space} }

InitStr ==
    /\ input = <<>>
    /\ src = "SRGB"
    /\ dst = "SRGB"
    /\ ncalls = 0
    /\ out = [e \in Compared |-> NoResult]
    /\ CallIdle
    /\ WalkIdle
    /\ pc = "idle"
    /\ str \in StrInputs
    /\ shown = "-"
    /\ parsed = NoParse

\* space.to_string()
Display ==
    \E sp \in Space :
        /\ str' = to_string(sp)
        /\ shown' = sp
        /\ parsed' = NoParse
        /\ UNCHANGED <<harnessVars, callVars, walkVars, pc>>

\* Space::try_from(str)
Parse ==
    /\ parsed = NoParse
    /\ parsed' = TryFrom(str)
    /\ UNCHANGED <<str, shown, harnessVars, callVars, walkVars, pc>>

NextStr ==
    \/ Display
    \/ Parse

StrSpec == InitStr /\ [][NextStr]_vars


----------------------------------------------------------------------------
(* The tree the claims speak of:                                           *)
(* HSV - SRGB - LRGB - XYZ - {CIELAB - CIELCH, OKLAB - OKLCH,              *)
(*                            JZAZBZ - JZCZHZ}, rooted at XYZ.             *)

Parent(s) ==
    CASE s = "HSV"    -> "SRGB"
      [] s = "SRGB"   -> "LRGB"
      [] s = "LRGB"   -> "XYZ"
      [] s = "CIELAB" -> "XYZ"
      [] s = "CIELCH" -> "CIELAB"
      [] s = "OKLAB"  -> "XYZ"
      [] s = "OKLCH"  -> "OKLAB"
      [] s = "JZAZBZ" -> "XYZ"
      [] s = "JZCZHZ" -> "JZAZBZ"
      [] s = "XYZ"    -> "XYZ"

RECURSIVE Ancestors(_)
Ancestors(s) == IF s = "XYZ" THEN {s} ELSE {s} \cup Ancestors(Parent(s))

\* the number of edges between a and b in the tree
TreeDist(a, b) ==
    Cardinality((Ancestors(a) \ Ancestors(b)) \cup (Ancestors(b) \ Ancestors(a)))

Adjacent(a, b) == a # b /\ (Parent(a) = b \/ Parent(b) = a)

NoDup(s) == \A i, j \in 1..Len(s) : i # j => s[i] # s[j]

CylindricalLeaves == {"HSV", "CIELCH", "OKLCH", "JZCZHZ"}

InWalk == pc \in {"walk", "apply", "ret"}

----------------------------------------------------------------------------
(* Claims.                                                                 *)

\* C1: for every (from, to) pair a walk of convert_space_chunked never has
\* its pixels in the same space twice, and when it returns it has applied
\* exactly as many edge functions as there are edges between from and to in
\* the tree.
C1_MinimalWalk ==
    /\ InWalk => NoDup(visited)
    /\ pc = "ret" => Len(path) = TreeDist(from, to)

\* C1 witness: a chunked call over two pixels has returned from a walk
\* across the whole tree, five edges long.
C1_Witness ==
    /\ pc = "ret"
    /\ entry = "chunked"
    /\ Len(pixels) = 2
    /\ Len(path) = 5
    /\ TreeDist(from, to) = 5

\* C2: a walk never applies more than 5 edge functions, and every
\* activation of convert_space_chunked leads to the walk's return.
C2_Terminates ==
    /\ [](Len(path) <= 5)
    /\ (pc = "walk") ~> (pc = "ret")

\* C2 witness: the walk from JZCZHZ to HSV has returned after 5 edges.
C2_Witness ==
    /\ pc = "ret"
    /\ from = "JZCZHZ"
    /\ to = "HSV"
    /\ Len(path) = 5

\* C3: no activation of convert_space_chunked reaches an unreachable!()
\* arm: SRGB never descends, a cylindrical leaf never ascends, and XYZ is
\* never asked to ascend toward SRGB, LRGB or HSV.
C3_NoUnreachable ==
    /\ pc # "panic"
    /\ pc = "walk" =>
         /\ Gt(cur, to) => cur # "SRGB"
         /\ Lt(cur, to) => cur \notin CylindricalLeaves
         /\ Lt(cur, to) /\ cur = "XYZ" => to \notin {"SRGB", "LRGB", "HSV"}

\* C3 witness: a walk that came down from CIELCH stands at XYZ and ascends
\* from there, into the OKLAB family.
C3_Witness ==
    /\ pc = "apply"
    /\ from = "CIELCH"
    /\ cur = "XYZ"
    /\ Lt(cur, to)
    /\ edge = "xyz_to_oklab"

\* C4: every function a walk applies is the documented edge from the
\* current space to a tree-adjacent space, the space tracked after the step
\* is that edge's target, and the walk stops exactly when it is at `to`.
C4_DocumentedEdges ==
    /\ pc = "apply" =>
         \E e \in DocEdges :
             /\ e[1] = cur
             /\ e[2] = edge
             /\ e[3] = (IF next = "-" THEN to ELSE next)
             /\ Adjacent(e[1], e[3])
    /\ pc = "walk" => cur = space
    /\ pc = "walk" => (Arm(cur, to).kind = "return" <=> cur = to)
    /\ pc = "ret" => space = to

\* C4 witness: the walk from SRGB to OKLCH has returned out of the
\* lab_to_lch arm, which does not recurse.
C4_Witness ==
    /\ pc = "ret"
    /\ from = "SRGB"
    /\ to = "OKLCH"
    /\ edge = "lab_to_lch"
    /\ next = "-"
    /\ path = <<"srgb_to_lrgb", "lrgb_to_xyz", "xyz_to_oklab", "lab_to_lch">>

\* C5: for every space X, convert_space, convert_space_chunked and
\* convert_space_sliced from X to X apply no edge function and leave every
\* element of the buffer as it was.
C5_NoOp ==
    (entry \in {"pixel", "chunked", "sliced"} /\ from = to) =>
        /\ pc # "apply"
        /\ path = <<>>
        /\ buf = input

\* C5 witness: convert_space_sliced from a space to itself is over, on a
\* buffer of two pixels.
C5_Witness ==
    /\ pc = "done"
    /\ entry = "sliced"
    /\ from = to
    /\ chunk = 2

\* C6: on data whose length is a multiple of 3, convert_space on a pixel,
\* convert_space_chunked on the pixels and convert_space_sliced on the
\* flat buffer leave the same values in every pixel.
C6_SameOutput ==
    Len(input) % 3 = 0 =>
        /\ out.chunked.set /\ out.sliced.set =>
             out.chunked.buf = out.sliced.buf
        /\ out.pixel.set /\ out.chunked.set =>
             PixelAt(out.pixel.buf, out.pixel.k, 3)
               = PixelAt(out.chunked.buf, out.pixel.k, 3)
        /\ out.pixel.set /\ out.sliced.set =>
             PixelAt(out.pixel.buf, out.pixel.k, 3)
               = PixelAt(out.sliced.buf, out.pixel.k, 3)

\* C6 witness: the chunked and the sliced call both converted two pixels
\* between two different spaces.
C6_Witness ==
    /\ Len(input) = 6
    /\ src # dst
    /\ out.chunked.set
    /\ out.sliced.set
    /\ out.sliced.buf # input

\* C7: convert_space_sliced leaves the trailing (len mod 3) elements of
\* the buffer as they were, whatever the length; a buffer shorter than one
\* pixel comes back unchanged, and the call does not fail.
C7_RemainderUntouched ==
    entry = "sliced" =>
        /\ pc # "panic"
        /\ Len(buf) = Len(input)
        /\ \A i \in 1..Len(input) :
               i > 3 * (Len(input) \div 3) => buf[i] = input[i]
        /\ Len(input) < 3 => buf = input /\ pc = "done"

\* C7 witness: convert_space_sliced is over on a buffer of five elements,
\* whose one whole pixel it converted.
C7_Witness ==
    /\ pc = "done"
    /\ entry = "sliced"
    /\ Len(input) = 5
    /\ buf[1] # input[1]

Names_(a, sp) == ~a.null /\ a.bytes = to_string(sp)

C10_DisplayRoundTrip ==
    (shown # "-" /\ parsed # NoParse) => parsed = Ok(shown)

\* C10 witness: "RGB", the Display form of LRGB, has been parsed.
C10_Witness ==
    /\ shown = "LRGB"
    /\ str = <<"R", "G", "B">>
    /\ parsed.ok

----------------------------------------------------------------------------
(* Space names, as the claims list them.                                   *)

\* the names the claim lists, each with its space
Aliases ==
    { << <<"s","r","g","b">>, "SRGB" >>, << <<"h","s","v">>, "HSV" >>,
      << <<"l","r","g","b">>, "LRGB" >>, << <<"r","g","b">>, "LRGB" >>,
      << <<"x","y","z">>, "XYZ" >>, << <<"c","i","e"," ","x","y","z">>, "XYZ" >>,
      << <<"c","i","e","x","y","z">>, "XYZ" >>,
      << <<"l","a","b">>, "CIELAB" >>, << <<"c","i","e"," ","l","a","b">>, "CIELAB" >>,
      << <<"c","i","e","l","a","b">>, "CIELAB" >>,
      << <<"l","c","h">>, "CIELCH" >>, << <<"c","i","e"," ","l","c","h">>, "CIELCH" >>,
      << <<"c","i","e","l","c","h">>, "CIELCH" >>,
      << <<"o","k","l","a","b">>, "OKLAB" >>, << <<"o","k","l","c","h">>, "OKLCH" >>,
      << <<"j","z","a","z","b","z">>, "JZAZBZ" >>,
      << <<"j","z","c","z","h","z">>, "JZCZHZ" >> }

\* s is the name, in some letter case, between two paddings of white space
Spells(s, name) ==
    \E l \in Pads, r \in Pads :
        /\ Len(s) = Len(l) + Len(name) + Len(r)
        /\ SubSeq(s, 1, Len(l)) = l
        /\ Upper(SubSeq(s, Len(l) + 1, Len(l) + Len(name))) = Upper(name)
        /\ SubSeq(s, Len(l) + Len(name) + 1, Len(s)) = r

\* C11: Space::try_from maps each listed name, in any letter case and with
\* any white space around it, to the space of that name, and gives Err(())
\* for every other string.
C11_TryFromAliases ==
    parsed # NoParse =>
        /\ \A a \in Aliases : Spells(str, a[1]) => parsed = Ok(a[2])
        /\ (~ \E a \in Aliases : Spells(str, a[1])) => parsed = Err

\* C11 witness: " CIEXYZ\n", upper case between white space, parsed as XYZ.
C11_Witness ==
    /\ str = <<" ", "C", "I", "E", "X", "Y", "Z", "\n">>
    /\ parsed = Ok("XYZ")

\* C11 witness of the refusal: "hsl" is no space.
C11_WitnessErr ==
    /\ str = <<"h", "s", "l">>
    /\ parsed = Err

----------------------------------------------------------------------------
(* Floating-point values.  A value is a fraction n/d in lowest terms with  *)
(* d > 0; d = 0 stands for the values that are not finite: n = 1 and       *)
(* n = -1 for the two infinities, n = 0 for NaN.  The arithmetic is exact  *)
(* on the finite values (the inputs below are small dyadic numbers); the   *)
(* rounding of f32 is modelled where a result depends on it, in            *)
(* rem_euclid_f32.                                                         *)

Abs(x) == IF x < 0 THEN -x ELSE x
Sgn(x) == IF x < 0 THEN -1 ELSE IF x > 0 THEN 1 ELSE 0

RECURSIVE Gcd(_, _)
Gcd(a, b) == IF b = 0 THEN a ELSE Gcd(b, a % b)

Rat(n, d) ==
    IF d = 0 THEN [n |-> Sgn(n), d |-> 0]
    ELSE LET g == Gcd(Abs(n), Abs(d))
         IN  [n |-> Sgn(n) * Sgn(d) * (Abs(n) \div g), d |-> Abs(d) \div g]

Zero == Rat(0, 1)
One  == Rat(1, 1)
NaN  == Rat(0, 0)
PosInf == Rat(1, 0)
NegInf == Rat(-1, 0)

is_finite(x) == x.d # 0
is_nan(x)    == x.d = 0 /\ x.n = 0

FNeg(x) == [n |-> -x.n, d |-> x.d]

\* x + y
FAdd(x, y) ==
    IF is_finite(x) /\ is_finite(y)
    THEN LET g == Gcd(x.d, y.d)
         IN  Rat(x.n * (y.d \div g) + y.n * (x.d \div g), (x.d \div g) * y.d)
    ELSE IF is_nan(x) \/ is_nan(y) THEN NaN
    ELSE IF is_finite(x) THEN y
    ELSE IF is_finite(y) THEN x
    ELSE IF x.n = y.n THEN x ELSE NaN

\* x - y
FSub(x, y) == FAdd(x, FNeg(y))

\* x * y
FMul(x, y) ==
    IF is_finite(x) /\ is_finite(y)
    THEN LET g == Gcd(Abs(x.n), y.d)
             h == Gcd(Abs(y.n), x.d)
         IN  Rat((x.n \div g) * (y.n \div h), (x.d \div h) * (y.d \div g))
    ELSE IF is_nan(x) \/ is_nan(y) \/ x.n = 0 \/ y.n = 0 THEN NaN
    ELSE Rat(Sgn(x.n) * Sgn(y.n), 0)

\* x / y: a finite non-zero value over zero is an infinity, 0/0 is NaN
FDiv(x, y) ==
    IF is_nan(x) \/ is_nan(y) THEN NaN
    ELSE IF is_finite(x) /\ is_finite(y) THEN
         (IF y.n = 0 THEN Rat(x.n, 0) ELSE Rat(x.n * y.d, x.d * y.n))
    ELSE IF is_finite(x) THEN Zero
    ELSE IF is_finite(y) THEN Rat(x.n * (IF y.n < 0 THEN -1 ELSE 1), 0)
    ELSE NaN

\* x < y, false when either is NaN
FLt(x, y) ==
    /\ ~is_nan(x) /\ ~is_nan(y)
    /\ IF is_finite(x) /\ is_finite(y) THEN x.n * y.d < y.n * x.d
       ELSE IF is_finite(x) THEN y.n > 0
       ELSE IF is_finite(y) THEN x.n < 0
       ELSE x.n < y.n

\* x == y
FEq(x, y) == ~is_nan(x) /\ ~is_nan(y) /\ x = y

\* x <= y
FLe(x, y) == FLt(x, y) \/ FEq(x, y)

\* f32::min, f32::max: a NaN operand is ignored
FMin(x, y) == IF is_nan(x) THEN y ELSE IF is_nan(y) THEN x ELSE IF FLt(y, x) THEN y ELSE x
FMax(x, y) == IF is_nan(x) THEN y ELSE IF is_nan(y) THEN x ELSE IF FLt(x, y) THEN y ELSE x

\* f32::trunc on a finite value
FTrunc(x) == Rat(Sgn(x.n) * (Abs(x.n) \div x.d), 1)

\* f32::rem_euclid: `let r = self % rhs; if r < 0.0 { r + rhs.abs() } else { r }`
rem_euclid(x, m) ==
    IF ~is_finite(x) \/ ~is_finite(m) \/ m.n = 0 THEN NaN
    ELSE LET r == FSub(x, FMul(m, FTrunc(FDiv(x, m))))
         IN  IF FLt(r, Zero) THEN FAdd(r, Rat(Abs(m.n), m.d)) ELSE r

----------------------------------------------------------------------------
(* srgb_to_hsv, and the hue of lab_to_lch.                                 *)

\* srgb_to_hsv: vmin, vmax, dmax
hsv_vmin(pixel) == FMin(FMin(pixel[1], pixel[2]), pixel[3])
hsv_vmax(pixel) == FMax(FMax(pixel[1], pixel[2]), pixel[3])
hsv_dmax(pixel) == FSub(hsv_vmax(pixel), hsv_vmin(pixel))

\* a value channel that is 0 whatever the pixel
hsv_value_zeroed(vmax) == Zero

\* srgb_to_hsv: `let v = vmax;`
hsv_value(vmax) == vmax

\* srgb_to_hsv: dr, dg, db
hsv_delta(c, vmax, dmax) ==
    FDiv(FAdd(FDiv(FSub(vmax, c), Rat(6, 1)), FDiv(dmax, Rat(2, 1))), dmax)

\* a hue branch that looks at the channels from the last to the first
hsv_branch_last_first(pixel) ==
    IF FEq(pixel[3], hsv_vmax(pixel)) THEN 2
    ELSE IF FEq(pixel[2], hsv_vmax(pixel)) THEN 1
    ELSE 0

\* srgb_to_hsv: the number of the branch of
\* `if pixel[0] == vmax { .. } else if pixel[1] == vmax { .. } else { .. }`
hsv_branch(pixel) ==
    IF FEq(pixel[1], hsv_vmax(pixel)) THEN 0
    ELSE IF FEq(pixel[2], hsv_vmax(pixel)) THEN 1
    ELSE 2

\* srgb_to_hsv: the hue of a pixel whose range is not 0
hsv_hue(pixel) ==
    LET vmax == hsv_vmax(pixel)
        dmax == hsv_dmax(pixel)
        dr == hsv_delta(pixel[1], vmax, dmax)
        dg == hsv_delta(pixel[2], vmax, dmax)
        db == hsv_delta(pixel[3], vmax, dmax)
        k  == hsv_branch(pixel)
    IN  rem_euclid(IF k = 0 THEN FSub(db, dg)
                   ELSE IF k = 1 THEN FSub(FAdd(Rat(1, 3), dr), db)
                   ELSE FSub(FAdd(Rat(2, 3), dg), dr),
                   One)

\* srgb_to_hsv(pixel): the pixel it leaves
srgb_to_hsv(pixel) ==
    LET vmax == hsv_vmax(pixel)
        dmax == hsv_dmax(pixel)
        v == hsv_value(vmax)
    IN  IF FEq(dmax, Zero)
        THEN <<Zero, Zero, v>>
        ELSE <<hsv_hue(pixel), FDiv(dmax, vmax), v>>

\* the significand of an f32 has 24 binary digits
F32_MANTISSA_DIGITS == 24

\* angles are counted in units of 2^-20 degree; every angle below is an f32
DegUnit == 2 ^ 20

\* the spacing of the f32 values around n units, in units
RECURSIVE Ulp(_)
Ulp(n) == IF n < 2 ^ F32_MANTISSA_DIGITS THEN 1 ELSE 2 * Ulp(n \div 2)

\* the f32 nearest to n units (n >= 0), ties to the even significand
RoundF32(n) ==
    LET q   == Ulp(n)
        lo  == (n \div q) * q
        rem == n - lo
    IN  IF 2 * rem < q THEN lo
        ELSE IF 2 * rem > q THEN lo + q
        ELSE IF (lo \div q) % 2 = 0 THEN lo ELSE lo + q

\* f32::rem_euclid on angles in units: the remainder is exact, the sum rounds
rem_euclid_f32(x, m) ==
    LET r == Sgn(x) * (Abs(x) % Abs(m))
    IN  IF r < 0 THEN RoundF32(r + Abs(m)) ELSE r

\* lab_to_lch: pixel[2].atan2(pixel[1]).to_degrees().rem_euclid(360.0),
\* from the angle atan2 and to_degrees give
lab_to_lch_hue(deg) == rem_euclid_f32(deg, 360 * DegUnit)

\* the channel values of the sRGB pixels converted
HsvChannel == { Rat(-1, 1), Rat(-1, 2), Zero, Rat(1, 2), One, Rat(2, 1) }

HsvPixels == { <<r, g, b>> : r \in HsvChannel, g \in HsvChannel, b \in HsvChannel }

\* angles atan2(b, a).to_degrees() of LAB pixels, in units
LabAngles ==
    { -180 * DegUnit, -90 * DegUnit, -DegUnit, -17, -16, -8, -1, 0,
      1, 16, 90 * DegUnit, 180 * DegUnit }

InitHue ==
    /\ input \in HsvPixels \cup { <<Rat(a, DegUnit)>> : a \in LabAngles }
    /\ src = "SRGB"
    /\ dst = IF Len(input) = 3 THEN "HSV" ELSE "CIELCH"
    /\ ncalls = 0
    /\ out = [e \in Compared |-> NoResult]
    /\ CallIdle
    /\ WalkIdle
    /\ StrIdle
    /\ pc = "idle"

\* convert_space(SRGB, HSV, pixel): srgb_to_hsv on the pixel; chunk keeps
\* the number of the hue branch the pixel selects
CallSrgbToHsv ==
    /\ pc = "idle"
    /\ Len(input) = 3
    /\ entry' = "srgb_to_hsv"
    /\ from' = src
    /\ to' = dst
    /\ buf' = srgb_to_hsv(input)
    /\ chunk' = hsv_branch(input)
    /\ pc' = "done"
    /\ UNCHANGED <<fromArg, toArg, pixNull, ret, nch, base>>
    /\ UNCHANGED <<harnessVars, walkVars, strVars>>

\* convert_space(SRGB, CIELCH, pixel): the hue lab_to_lch writes last
CallLabToLch ==
    /\ pc = "idle"
    /\ Len(input) = 1
    /\ entry' = "lab_to_lch"
    /\ from' = src
    /\ to' = dst
    /\ buf' = << Rat(lab_to_lch_hue(input[1].n * (DegUnit \div input[1].d)), DegUnit) >>
    /\ pc' = "done"
    /\ UNCHANGED <<fromArg, toArg, pixNull, ret, nch, chunk, base>>
    /\ UNCHANGED <<harnessVars, walkVars, strVars>>

NextHue ==
    \/ CallSrgbToHsv
    \/ CallLabToLch

HueSpec == InitHue /\ [][NextHue]_vars

----------------------------------------------------------------------------
(* Claims about srgb_to_hsv and the hue channels.                          *)

HsvDone == entry = "srgb_to_hsv" /\ pc = "done"
LchDone == entry = "lab_to_lch" /\ pc = "done"

\* C12 as stated: for every finite sRGB pixel, also with channels below 0
\* or above 1, the hue convert_space(SRGB, CIELCH) leaves is in [0, 360)
\* and the hue convert_space(SRGB, HSV) leaves is in [0, 1).
C12_HueRange ==
    /\ HsvDone => FLe(Zero, buf[1]) /\ FLt(buf[1], One)
    /\ LchDone => FLe(Zero, buf[1]) /\ FLt(buf[1], Rat(360, 1))

\* the half of C12 that is about HSV
C12_HsvHueRange == HsvDone => FLe(Zero, buf[1]) /\ FLt(buf[1], One)

\* the hue of CIELCH, with 360 allowed
C12_LchHueClosed == LchDone => FLe(Zero, buf[1]) /\ FLe(buf[1], Rat(360, 1))

\* a hue of exactly 360 has been written
C12_Hue360 == LchDone /\ buf[1] = Rat(360, 1) /\ input[1].n < 0

\* C13 as stated: for every finite pixel srgb_to_hsv divides by no zero
\* and leaves three finite channels.
C13_Total ==
    HsvDone =>
        /\ ~FEq(hsv_dmax(input), Zero) => ~FEq(hsv_vmax(input), Zero)
        /\ \A i \in 1..3 : is_finite(buf[i])

\* the pixel [0, -1, -1] has been converted: its saturation is infinite
C13_InfiniteSaturation ==
    /\ HsvDone
    /\ input = <<Zero, Rat(-1, 1), Rat(-1, 1)>>
    /\ buf[2] = PosInf

\* C14 as stated: when the range of the three channels is exactly 0,
\* srgb_to_hsv leaves saturation 0 and value 0.
C14_AsStated ==
    (HsvDone /\ FEq(hsv_dmax(input), Zero)) => buf[2] = Zero /\ buf[3] = Zero

\* C14, amended: when the range of the three channels is exactly 0,
\* srgb_to_hsv leaves hue 0 and saturation 0, and the value is the common
\* value of the channels (0 only for black).
C14_ZeroRange ==
    (HsvDone /\ FEq(hsv_dmax(input), Zero)) =>
        /\ buf[1] = Zero
        /\ buf[2] = Zero
        /\ buf[3] = input[1]
        /\ buf[3] = input[2]
        /\ buf[3] = input[3]

\* C14 witness: the grey [1/2, 1/2, 1/2] has been converted; its value is
\* 1/2.
C14_Witness ==
    /\ HsvDone
    /\ input = <<Rat(1, 2), Rat(1, 2), Rat(1, 2)>>
    /\ buf = <<Zero, Zero, Rat(1, 2)>>

----------------------------------------------------------------------------
(* Characters, and the hexadecimal helpers.                                *)

\* the printable ASCII characters, from code 32 on (the double quote,
\* the backslash and the backtick are written out by name)
Ascii ==
    << " ", "!", "QUOTE", "#", "$", "%", "&", "'", "(", ")", "*", "+", ",", "-", ".", "/",
       "0", "1", "2", "3", "4", "5", "6", "7", "8", "9", ":", ";", "<", "=", ">", "?",
       "@", "A", "B", "C", "D", "E", "F", "G", "H", "I", "J", "K", "L", "M", "N", "O",
       "P", "Q", "R", "S", "T", "U", "V", "W", "X", "Y", "Z", "[", "BACKSLASH", "]", "^", "_",
       "BACKTICK", "a", "b", "c", "d", "e", "f", "g", "h", "i", "j", "k", "l", "m", "n", "o",
       "p", "q", "r", "s", "t", "u", "v", "w", "x", "y", "z", "{", "|", "}", "~" >>

\* `n as char`
Chr(u) == IF u \in 32..126 THEN Ascii[u - 31] ELSE "?"

\* `c as u32`
Ord(c) ==
    IF c = "\t" THEN 9
    ELSE IF c = "\n" THEN 10
    ELSE 31 + (CHOOSE i \in 1..Len(Ascii) : Ascii[i] = c)

\* str::to_ascii_uppercase
to_ascii_uppercase(s) == [i \in 1..Len(s) |-> UpperChar(s[i])]

\* a digit character that is written in lower case
hex_char_lower(n) == Chr(IF n >= 10 THEN n + 87 ELSE n + 48)

\* irgb_to_hex: `if n >= 10 { n + 55 } else { n + 48 } as char`
hex_char(n) == Chr(IF n >= 10 THEN n + 55 ELSE n + 48)

\* irgb_to_hex(pixel)
irgb_to_hex(pixel) ==
    <<"#">> \o << hex_char(pixel[1] \div 16), hex_char(pixel[1] % 16),
                  hex_char(pixel[2] \div 16), hex_char(pixel[2] % 16),
                  hex_char(pixel[3] \div 16), hex_char(pixel[3] % 16) >>

\* hex_to_irgb: the value of one character of the upper-cased string
hex_digit(c) ==
    LET u == Ord(c)
    IN  IF 57 >= u /\ u >= 48 THEN Ok(u - 48)
        ELSE IF 70 >= u /\ u >= 65 THEN Ok(u - 55)
        ELSE Err

\* hex_to_irgb: `chars.as_str().len() == 6`
hex_length_ok(chars) == Len(chars) = 6

\* hex_to_irgb(hex)
hex_to_irgb(hex) ==
    LET h     == to_ascii_uppercase(trim(hex))
        chars == IF h # <<>> /\ Head(h) = "#" THEN Tail(h) ELSE h
        ids   == [i \in 1..Len(chars) |-> hex_digit(chars[i])]
    IN  IF ~hex_length_ok(chars) THEN Err
        ELSE IF \E i \in 1..Len(chars) : ~ids[i].ok THEN Err
        ELSE Ok(<< (ids[1].v * 16 + ids[2].v) % 256,
                   (ids[3].v * 16 + ids[4].v) % 256,
                   (ids[5].v * 16 + ids[6].v) % 256 >>)

\* channel values of the integer pixels written as hex
IrgbChannel == { 0, 9, 10, 15, 16, 51, 89, 159, 160, 175, 242, 255 }

IrgbPixels == { <<r, g, b>> : r \in IrgbChannel, g \in IrgbChannel, b \in IrgbChannel }

\* digit strings: good ones, and ones that are too short, too long or hold
\* a character that is no hexadecimal digit
HexBodies ==
    { <<"A","B","C","D","E","F">>, <<"a","b","c","d","e","f">>,
      <<"3","3","5","9","F","2">>, <<"0","9","a","F","1","0">>,
      <<"A","B","C","D","E","F","0","1">>, <<"a","b","c","d","e","f","0","1">>,
      <<>>, <<"5","F">>, <<"1","2","3","4","5">>,
      <<"A","B","C","D","E","G">>, <<"a","b","c","d","e","g">>,
      <<"A","B","C","D","E","F","F">>, <<"A","B"," ","C","D","E","F">>,
      <<"A","B","C","D","E","/">>, <<"A","B","C","D","E",":">>,
      <<"A","B","C","D","E","@">>, <<"A","B","C","D","E","BACKTICK">> }

\* the strings handed to hex_to_irgb
HexStrings ==
    { l \o h \o b \o t \o r :
        l \in Pads, r \in Pads, b \in HexBodies,
        h \in { <<>>, <<"#">>, <<"#", "#">> }, t \in { <<>>, <<"#">> } }

InitHex ==
    /\ \/ input \in IrgbPixels /\ str = <<>>
       \/ input = <<>> /\ str \in HexStrings
    /\ src = "SRGB"
    /\ dst = "SRGB"
    /\ ncalls = 0
    /\ out = [e \in Compared |-> NoResult]
    /\ CallIdle
    /\ WalkIdle
    /\ shown = "-"
    /\ parsed = NoParse
    /\ pc = "idle"

\* irgb_to_hex(input)
CallIrgbToHex ==
    /\ pc = "idle"
    /\ Len(input) = 3
    /\ entry = "-"
    /\ entry' = "irgb_to_hex"
    /\ str' = irgb_to_hex(input)
    /\ UNCHANGED <<fromArg, toArg, pixNull, ret, from, to, nch, buf, chunk, base>>
    /\ UNCHANGED <<harnessVars, walkVars, shown, parsed, pc>>

\* hex_to_irgb(str), on a string of the caller or on what irgb_to_hex wrote
CallHexToIrgb ==
    /\ pc = "idle"
    /\ parsed = NoParse
    /\ input = <<>> \/ entry = "irgb_to_hex"
    /\ parsed' = hex_to_irgb(str)
    /\ pc' = "done"
    /\ UNCHANGED <<callVars, harnessVars, walkVars, str, shown>>

NextHex ==
    \/ CallIrgbToHex
    \/ CallHexToIrgb

HexSpec == InitHex /\ [][NextHex]_vars

\* hex_to_irgb has returned
HexParsed == parsed.ok \/ parsed # NoParse

\* the characters the claims call hexadecimal digits
HexDigitChars ==
    { "0", "1", "2", "3", "4", "5", "6", "7", "8", "9",
      "A", "B", "C", "D", "E", "F", "a", "b", "c", "d", "e", "f" }

UpperHexDigitChars ==
    { "0", "1", "2", "3", "4", "5", "6", "7", "8", "9", "A", "B", "C", "D", "E", "F" }

\* s is white space, at most one '#', a number of hexadecimal digits that
\* is in lens, white space
WellFormedHex(s, lens) ==
    \E l \in Pads, r \in Pads, h \in { <<>>, <<"#">> } :
        LET body == SubSeq(s, Len(l) + Len(h) + 1, Len(s) - Len(r))
        IN  /\ Len(l) + Len(h) + Len(r) <= Len(s)
            /\ s = l \o h \o body \o r
            /\ Len(body) \in lens
            /\ \A i \in 1..Len(body) : body[i] \in HexDigitChars

\* C15 as stated: hex_to_irgb gives Ok exactly for 6 or 8 hexadecimal
\* digits in either case, after at most one '#' and inside any white space,
\* and Err for every other string.
C15_AsStated ==
    (input = <<>> /\ HexParsed) => (parsed.ok <=> WellFormedHex(str, {6, 8}))

\* what hex_to_irgb does: the same, for 6 digits only
C15_SixDigits ==
    (input = <<>> /\ HexParsed) => (parsed.ok <=> WellFormedHex(str, {6}))

\* "#ABCDEF01", eight digits, has been refused
C15_EightDigitsRefused ==
    /\ str = <<"#", "A", "B", "C", "D", "E", "F", "0", "1">>
    /\ ~parsed.ok
    /\ parsed = Err

\* C16: for every integer pixel p, irgb_to_hex(p) is '#' and exactly six
\* upper-case hexadecimal digits, and hex_to_irgb(irgb_to_hex(p)) = Ok(p).
C16_HexRoundTrip ==
    entry = "irgb_to_hex" =>
        /\ Len(str) = 7
        /\ str[1] = "#"
        /\ \A i \in 2..7 : str[i] \in UpperHexDigitChars
        /\ HexParsed => parsed.ok /\ parsed.v = input

\* C16 witness: [175, 9, 242] was written as "#AF09F2" and read back.
C16_Witness ==
    /\ input = <<175, 9, 242>>
    /\ str = <<"#", "A", "F", "0", "9", "F", "2">>
    /\ parsed.ok
    /\ parsed.v = <<175, 9, 242>>

----------------------------------------------------------------------------
(* srgb_to_irgb.                                                           *)

\* a cast that rounds to the nearest integer
as_u8_rounding(x) ==
    IF is_nan(x) THEN 0
    ELSE IF ~is_finite(x) THEN (IF x.n > 0 THEN 255 ELSE 0)
    ELSE LET t == (2 * x.n + x.d) \div (2 * x.d)
         IN  IF t < 0 THEN 0 ELSE IF t > 255 THEN 255 ELSE t

\* `x as u8` on an f32: truncation toward zero, saturating, NaN gives 0
as_u8(x) ==
    IF is_nan(x) THEN 0
    ELSE IF ~is_finite(x) THEN (IF x.n > 0 THEN 255 ELSE 0)
    ELSE LET t == Sgn(x.n) * (Abs(x.n) \div x.d)
         IN  IF t < 0 THEN 0 ELSE IF t > 255 THEN 255 ELSE t

\* srgb_to_irgb: `(c * 255.0).max(0.0).min(255.0) as u8`
irgb_channel(c) == as_u8(FMin(FMax(FMul(c, Rat(255, 1)), Zero), Rat(255, 1)))

\* srgb_to_irgb(pixel)
srgb_to_irgb(pixel) ==
    << irgb_channel(pixel[1]), irgb_channel(pixel[2]), irgb_channel(pixel[3]) >>

\* channel values handed to srgb_to_irgb: inside, on and outside [0, 1],
\* and the values that are not finite
FloatChannel ==
    { NegInf, Rat(-3, 2), Rat(-1, 255), Zero, Rat(1, 510), Rat(1, 255), Rat(1, 5),
      Rat(7, 20), Rat(1, 2), Rat(19, 20), Rat(509, 510), One, Rat(256, 255),
      Rat(3, 1), PosInf, NaN }

InitIrgb ==
    /\ input \in { <<r, g, b>> : r \in FloatChannel, g \in FloatChannel, b \in FloatChannel }
    /\ src = "SRGB"
    /\ dst = "SRGB"
    /\ ncalls = 0
    /\ out = [e \in Compared |-> NoResult]
    /\ CallIdle
    /\ WalkIdle
    /\ StrIdle
    /\ pc = "idle"

\* srgb_to_irgb(input)
CallSrgbToIrgb ==
    /\ pc = "idle"
    /\ entry' = "srgb_to_irgb"
    /\ buf' = srgb_to_irgb(input)
    /\ pc' = "done"
    /\ UNCHANGED <<fromArg, toArg, pixNull, ret, from, to, nch, chunk, base>>
    /\ UNCHANGED <<harnessVars, walkVars, strVars>>

NextIrgb == CallSrgbToIrgb

IrgbSpec == InitIrgb /\ [][NextIrgb]_vars

\* C17: srgb_to_irgb maps a channel <= 0.0 to 0, a channel >= 1.0 to 255
\* and a channel c in between to c * 255 truncated; every output channel is
\* in 0..255 for every input, the ones that are not finite included.
C17_Clips ==
    (entry = "srgb_to_irgb" /\ pc = "done") =>
        \A i \in 1..3 :
            /\ buf[i] \in 0..255
            /\ FLe(input[i], Zero) => buf[i] = 0
            /\ FLe(One, input[i]) => buf[i] = 255
            /\ (FLt(Zero, input[i]) /\ FLt(input[i], One)) =>
                   buf[i] = (255 * input[i].n) \div input[i].d

\* C17 witness: [-3/2, 1/2, 3] has become [0, 127, 255].
C17_Witness ==
    /\ entry = "srgb_to_irgb"
    /\ input = <<Rat(-3, 2), Rat(1, 2), Rat(3, 1)>>
    /\ buf = <<0, 127, 255>>

----------------------------------------------------------------------------
(* Colours written as text: rm_paren and str2col.                          *)

Openers == {"(", "[", "{"}
Closers == {")", "]", "}"}

\* the separators of str2col: `seps`, and white space
Seps == {",", ":", ";"}
IsSep(c) == c \in WhiteSpace \/ c \in Seps

\* an rm_paren that drops a leading bracket whatever the last character is
rm_paren_opening_only(s) ==
    IF s # <<>> /\ Head(s) \in Openers
    THEN SubSeq(s, 2, IF s[Len(s)] \in Closers THEN Len(s) - 1 ELSE Len(s))
    ELSE s

\* rm_paren(s)
rm_paren(s) ==
    IF s # <<>> /\ Head(s) \in Openers /\ s[Len(s)] \in Closers
    THEN SubSeq(s, 2, Len(s) - 1)
    ELSE s

\* str::find with a predicate: the first position whose character is in
\* `set`, 0 when there is none
Find(s, set) ==
    IF \E i \in 1..Len(s) : s[i] \in set
    THEN CHOOSE i \in 1..Len(s) : s[i] \in set /\ \A j \in 1..(i - 1) : s[j] \notin set
    ELSE 0

\* str::trim_start_matches(white space or separator)
RECURSIVE trim_start_matches(_)
trim_start_matches(s) ==
    IF s # <<>> /\ IsSep(Head(s)) THEN trim_start_matches(Tail(s)) ELSE s

\* str::split(white space or separator) with the empty pieces filtered out
RECURSIVE split(_)
split(s) ==
    LET t == trim_start_matches(s)
        i == Find(t, WhiteSpace \cup Seps)
    IN  IF t = <<>> THEN <<>>
        ELSE IF i = 0 THEN <<t>>
        ELSE <<SubSeq(t, 1, i - 1)>> \o split(SubSeq(t, i, Len(t)))

Digits == {"0", "1", "2", "3", "4", "5", "6", "7", "8", "9"}

AllDigits(s) == \A i \in 1..Len(s) : s[i] \in Digits

RECURSIVE DigitsValue(_)
DigitsValue(s) ==
    IF s = <<>> THEN 0
    ELSE 10 * DigitsValue(SubSeq(s, 1, Len(s) - 1)) + (Ord(s[Len(s)]) - 48)

\* str::parse::<f32>: an optional sign, then inf, infinity or nan in any
\* case, or digits with an optional point and an optional exponent.  The
\* value is the exact decimal; the rounding to f32 is left out.
parse_f32(tok) ==
    LET signed == tok # <<>> /\ Head(tok) \in {"+", "-"}
        neg    == tok # <<>> /\ Head(tok) = "-"
        body   == IF signed THEN Tail(tok) ELSE tok
        low    == to_ascii_lowercase(body)
        e      == Find(body, {"e", "E"})
        mant   == IF e = 0 THEN body ELSE SubSeq(body, 1, e - 1)
        expo   == IF e = 0 THEN <<>> ELSE SubSeq(body, e + 1, Len(body))
        esign  == expo # <<>> /\ Head(expo) \in {"+", "-"}
        eneg   == expo # <<>> /\ Head(expo) = "-"
        edig   == IF esign THEN Tail(expo) ELSE expo
        dot    == Find(mant, {"."})
        ip     == IF dot = 0 THEN mant ELSE SubSeq(mant, 1, dot - 1)
        fp     == IF dot = 0 THEN <<>> ELSE SubSeq(mant, dot + 1, Len(mant))
        num    == DigitsValue(ip) * 10 ^ Len(fp) + DigitsValue(fp)
        den    == 10 ^ Len(fp)
        ev     == DigitsValue(edig)
        val    == IF eneg THEN Rat(num, den * 10 ^ ev) ELSE Rat(num * 10 ^ ev, den)
    IN  IF low \in { <<"i","n","f">>, <<"i","n","f","i","n","i","t","y">> }
        THEN Ok(IF neg THEN NegInf ELSE PosInf)
        ELSE IF low = <<"n","a","n">> THEN Ok(NaN)
        ELSE IF /\ AllDigits(ip) /\ AllDigits(fp) /\ Len(ip) + Len(fp) >= 1
                /\ e = 0 \/ (edig # <<>> /\ AllDigits(edig))
        THEN Ok(IF neg THEN FNeg(val) ELSE val)
        ELSE Err

\* irgb_to_srgb(pixel)
irgb_to_srgb(pixel) == << Rat(pixel[1], 255), Rat(pixel[2], 255), Rat(pixel[3], 255) >>

Some(sp, col) == [ok |-> TRUE, v |-> [space |-> sp, col |-> col]]
None == Err

\* str2col(s)
str2col(s0) ==
    LET s1    == rm_paren(trim(s0))
        hex   == hex_to_irgb(s1)
        i     == Find(s1, WhiteSpace \cup Seps \cup Openers)
        sp    == IF i = 0 THEN Err ELSE TryFrom(SubSeq(s1, 1, i - 1))
        named == IF sp.ok THEN sp.v ELSE "SRGB"
        s2    == IF sp.ok THEN rm_paren(trim_start_matches(SubSeq(s1, i, Len(s1))))
                 ELSE s1
        toks  == split(s2)
        splits == [k \in 1..Len(toks) |-> parse_f32(toks[k])]
    IN  IF hex.ok THEN Some("SRGB", irgb_to_srgb(hex.v))
        ELSE IF Len(splits) = 3 /\ \A k \in 1..3 : splits[k].ok
        THEN Some(named, <<splits[1].v, splits[2].v, splits[3].v>>)
        ELSE None

RECURSIVE Join(_, _)
Join(toks, sep) ==
    IF toks = <<>> THEN <<>>
    ELSE IF Len(toks) = 1 THEN toks[1]
    ELSE toks[1] \o sep \o Join(Tail(toks), sep)

\* what a colour string is put together from: white space, a bracket, a
\* name, a separator, a second bracket, tokens, and the closing halves
ColNames ==
    { <<>>, <<"l","c","h">>, <<"O","k","L","a","b">>,
      <<"c","i","e"," ","l","a","b">>, <<"f","o","o">> }

ColNameSeps == { <<>>, <<" ">>, <<";", " ">> }

ColTokens ==
    { << <<"0",".","2">>, <<"0",".","5">>, <<"0",".","6">> >>,
      << <<"5","0">>, <<"-","3","0">>, <<"1","e","2">> >>,
      << <<".","5">>, <<"1",".">>, <<"+","3">> >>,
      << <<"i","n","f">>, <<"N","a","N">>, <<"2","E","-","1">> >>,
      << <<"0",".","2">>, <<"0",".","5">>, <<"f">> >>,
      << <<"1">>, <<"e","5">>, <<"3">> >>,
      << <<"0",".","2","*","0",".","5">>, <<"0",".","6">> >>,
      << <<"0",".","2">>, <<"0",".","5">> >>,
      << <<"1">>, <<"2">>, <<"3">>, <<"4">> >>,
      << <<"#","F","F","0","0","0","0">> >>,
      << <<"3","3","5","9","f","2">> >>,
      << <<"#","1","2","3","4","5">> >>,
      << >> }

ColTokenSeps == { <<" ">>, <<",">>, <<":", " ", " ">> }

ColPieces ==
    { [pad |-> pad, open |-> open, close |-> close, ipad |-> ipad, name |-> name,
       sep |-> sep, open2 |-> br2[1], close2 |-> br2[2], toks |-> toks, tsep |-> tsep] :
        pad \in { <<>>, <<" ">> }, ipad \in { <<>>, <<" ">> },
        open \in { <<>>, <<"(">>, <<"{">> }, close \in { <<>>, <<")">>, <<"]">> },
        name \in ColNames, sep \in ColNameSeps,
        br2 \in { << <<>>, <<>> >>, << <<"(">>, <<")">> >>, << <<"[">>, <<>> >> },
        toks \in ColTokens, tsep \in ColTokenSeps }

\* the string the pieces spell
ColString(p) ==
    p.pad \o p.open \o p.ipad \o p.name \o p.sep \o p.open2
          \o Join(p.toks, p.tsep)
          \o p.close2 \o p.ipad \o p.close \o p.pad

InitStr2Col ==
    /\ input \in { p \in ColPieces :
                     p.name = <<>> => (p.sep = <<>> /\ p.open2 = <<>>) }
    /\ str = ColString(input)
    /\ src = "SRGB"
    /\ dst = "SRGB"
    /\ ncalls = 0
    /\ out = [e \in Compared |-> NoResult]
    /\ CallIdle
    /\ WalkIdle
    /\ shown = "-"
    /\ parsed = NoParse
    /\ pc = "idle"

\* str2col(str)
CallStr2Col ==
    /\ pc = "idle"
    /\ entry' = "str2col"
    /\ parsed' = str2col(str)
    /\ pc' = "done"
    /\ UNCHANGED <<fromArg, toArg, pixNull, ret, from, to, nch, buf, chunk, base>>
    /\ UNCHANGED <<harnessVars, walkVars, str, shown>>

NextStr2Col == CallStr2Col

Str2ColSpec == InitStr2Col /\ [][NextStr2Col]_vars

\* str2col has returned
Str2ColDone == entry = "str2col" /\ pc = "done"

\* the name piece is one of the space names, in some letter case
NamesSpace(p) == \E a \in Aliases : Upper(p.name) = Upper(a[1])
NamedSpace(p) ==
    IF NamesSpace(p)
    THEN (CHOOSE a \in Aliases : Upper(p.name) = Upper(a[1]))[2]
    ELSE "SRGB"

\* the string opens more brackets than it closes, or closes more
Unbalanced(p) == Len(p.open) + Len(p.open2) # Len(p.close2) + Len(p.close)

\* three tokens that are numbers, after nothing or after a space name
ThreeNumbers(p) ==
    /\ p.name = <<>> \/ NamesSpace(p)
    /\ Len(p.toks) = 3
    /\ \A k \in 1..3 : parse_f32(p.toks[k]).ok

\* the value of a hexadecimal digit in either case
HexValue(c) ==
    LET digits == <<"0","1","2","3","4","5","6","7","8","9","A","B","C","D","E","F">>
    IN  (CHOOSE i \in 1..16 : digits[i] = UpperChar(c)) - 1

\* the k-th pair of digits of a hex colour, as a number
HexByte(tok, k) ==
    LET d == SelectSeq(tok, LAMBDA c : c # "#")
    IN  16 * HexValue(d[2 * k - 1]) + HexValue(d[2 * k])

\* one token that is a hex colour of six digits, with no name before it
HexColour(p) ==
    /\ p.name = <<>>
    /\ Len(p.toks) = 1
    /\ WellFormedHex(p.toks[1], {6})

C18_WitnessNamed ==
    /\ Str2ColDone
    /\ str = <<"l","c","h",";"," ","(","5","0",",","-","3","0",",","1","e","2",")">>
    /\ parsed = Some("CIELCH", <<Rat(50, 1), Rat(-30, 1), Rat(100, 1)>>)

\* the edge that takes a cylindrical leaf to its parent
Decylindrify(leaf) == IF leaf = "HSV" THEN "hsv_to_srgb" ELSE "lch_to_lab"

\* C19: when `from` is a cylindrical leaf and from # to, the walk does
\* select an edge, and the first edge it applies is the one from the leaf
\* to the leaf's own parent (hsv_to_srgb to SRGB for HSV, lch_to_lab to
\* CIELAB, OKLAB, JZAZBZ for CIELCH, OKLCH, JZCZHZ), after which it goes on
\* from that parent; there is no `to`, another cylindrical leaf included,
\* for which it is anything else.
C19_LeafFirst ==
    (from \in CylindricalLeaves /\ from # to) =>
        /\ pc # "panic"
        /\ pc = "ret" => Len(path) >= 1
        /\ Len(path) >= 1 => path[1] = Decylindrify(from)
        /\ (pc = "apply" /\ Len(path) = 1) =>
              /\ cur = from
              /\ edge = Decylindrify(from)
              /\ next = Parent(from)
        /\ Len(visited) >= 2 => visited[2] = Parent(from)

\* C19 witness: the walk from OKLCH to JZCZHZ, another cylindrical leaf,
\* has applied lch_to_lab first and gone on from OKLAB.
C19_Witness ==
    /\ pc = "ret"
    /\ from = "OKLCH"
    /\ to = "JZCZHZ"
    /\ path[1] = "lch_to_lab"
    /\ visited[2] = "OKLAB"
    /\ Len(path) = 4

----------------------------------------------------------------------------
(* The ordering of Space on its own.                                       *)

InitOrd ==
    /\ input \in Space \X Space \X Space
    /\ src = "SRGB"
    /\ dst = "SRGB"
    /\ ncalls = 0
    /\ out = [e \in Compared |-> NoResult]
    /\ CallIdle
    /\ WalkIdle
    /\ StrIdle
    /\ pc = "idle"

\* a.partial_cmp(&b), b.partial_cmp(&a), b.partial_cmp(&c) and
\* a.partial_cmp(&c) for the three spaces a, b, c of the input
CallPartialCmp ==
    /\ pc = "idle"
    /\ entry' = "partial_cmp"
    /\ buf' = << partial_cmp(input[1], input[2]), partial_cmp(input[2], input[1]),
                 partial_cmp(input[2], input[3]), partial_cmp(input[1], input[3]) >>
    /\ pc' = "done"
    /\ UNCHANGED <<fromArg, toArg, pixNull, ret, from, to, nch, chunk, base>>
    /\ UNCHANGED <<harnessVars, walkVars, strVars>>

NextOrd == CallPartialCmp

OrdSpec == InitOrd /\ [][NextOrd]_vars

\* the comparisons have been made
OrdDone == entry = "partial_cmp" /\ pc = "done"

\* C20 as stated: partial_cmp is a strict partial order on distinct spaces:
\* a > b is b < a, so a > b and b > a never both hold; a > b and b > c give
\* a > c; and the result is Equal exactly for equal spaces.
C20_StrictOrder ==
    OrdDone =>
        /\ (buf[1] = "Greater") <=> (buf[2] = "Less")
        /\ ~(buf[1] = "Greater" /\ buf[2] = "Greater")
        /\ (buf[1] = "Greater" /\ buf[3] = "Greater") => buf[4] = "Greater"
        /\ (buf[1] = "Equal") <=> (input[1] = input[2])

\* the part of C20 that holds: Equal exactly for equal spaces
C20_EqualIffEqual ==
    OrdDone => ((buf[1] = "Equal") <=> (input[1] = input[2]))

\* HSV > CIELCH and CIELCH > HSV at once
C20_BothGreater ==
    /\ OrdDone
    /\ input[1] = "HSV"
    /\ input[2] = "CIELCH"
    /\ buf[1] = "Greater"
    /\ buf[2] = "Greater"

\* HSV > CIELCH and CIELCH > HSV, and HSV is not greater than HSV
C20_NotTransitive ==
    /\ OrdDone
    /\ input = <<"HSV", "CIELCH", "HSV">>
    /\ buf[1] = "Greater"
    /\ buf[3] = "Greater"
    /\ buf[4] = "Equal"

\* the edge functions that have been applied to a pixel, oldest first
RECURSIVE EdgesOf(_)
EdgesOf(p) ==
    IF p[2].f = "in" THEN <<>> ELSE Append(EdgesOf(p[2].a), p[2].f)

Front(s) == SubSeq(s, 1, Len(s) - 1)

\* C21: at every point of a call of convert_space_chunked there is an index
\* i such that the pixels before i have had every edge selected so far
\* applied and the pixels from i on every edge but the last one; between two
\* edges every pixel has had the same edges applied, the edges of the path,
\* which is selected once for the slice and not once for each pixel.
C21_EdgeByEdge ==
    InWalk =>
        /\ pc = "apply" =>
              \E i \in 0..Len(pixels) :
                  \A k \in 1..Len(pixels) :
                      EdgesOf(pixels[k]) = IF k <= i THEN path ELSE Front(path)
        /\ pc \in {"walk", "ret"} =>
              \A k \in 1..Len(pixels) : EdgesOf(pixels[k]) = path

\* C21 witness: in a chunked call on two pixels the second edge has been
\* applied to the first pixel and not yet to the second.
C21_Witness ==
    /\ entry = "chunked"
    /\ pc = "apply"
    /\ Len(pixels) = 2
    /\ Len(path) = 2
    /\ EdgesOf(pixels[1]) = path
    /\ EdgesOf(pixels[2]) = Front(path)

\* the edges applied to the k-th whole pixel (from 1) of the flat buffer
EdgesOfChunk(b, k) == EdgesOf(PixelAt(b, 3 * (k - 1), 3))

\* C22 as stated: convert_space_sliced applies each edge to every whole
\* pixel of the buffer before it applies the next edge: no whole pixel of
\* the buffer is ever more than one edge ahead of another.
C22_EdgeByEdge ==
    entry = "sliced" =>
        \A j, k \in 1..(Len(buf) \div 3) :
            Len(EdgesOfChunk(buf, j)) <= Len(EdgesOfChunk(buf, k)) + 1

\* the first pixel of the buffer has had two edges applied, the second none,
\* and the walk for the second pixel is selecting its edges anew
C22_PixelByPixel ==
    /\ entry = "sliced"
    /\ pc = "walk"
    /\ chunk = 1
    /\ path = <<>>
    /\ Len(EdgesOfChunk(buf, 1)) = 2
    /\ EdgesOfChunk(buf, 2) = <<>>

----------------------------------------------------------------------------
(* hsv_to_srgb.                                                            *)

\* hsv_to_srgb: var_h
hsv_var_h(pixel) ==
    LET h == FMul(pixel[1], Rat(6, 1))
    IN  IF FEq(h, Rat(6, 1)) THEN Zero ELSE h

\* hsv_to_srgb: var_i = var_h.trunc()
hsv_var_i(var_h) == IF is_finite(var_h) THEN FTrunc(var_h) ELSE var_h

\* hsv_to_srgb: the number of the branch of the if-else chain taken on var_i
hsv_case(var_i) ==
    IF FEq(var_i, Zero) THEN 0
    ELSE IF FEq(var_i, One) THEN 1
    ELSE IF FEq(var_i, Rat(2, 1)) THEN 2
    ELSE IF FEq(var_i, Rat(3, 1)) THEN 3
    ELSE IF FEq(var_i, Rat(4, 1)) THEN 4
    ELSE 5

\* hsv_to_srgb(pixel): the pixel it leaves
hsv_to_srgb(pixel) ==
    IF FEq(pixel[2], Zero) THEN <<pixel[3], pixel[3], pixel[3]>>
    ELSE LET var_h == hsv_var_h(pixel)
             var_i == hsv_var_i(var_h)
             frac  == FSub(var_h, var_i)
             var_1 == FMul(pixel[3], FSub(One, pixel[2]))
             var_2 == FMul(pixel[3], FSub(One, FMul(pixel[2], frac)))
             var_3 == FMul(pixel[3], FSub(One, FMul(pixel[2], FSub(One, frac))))
             i     == hsv_case(var_i)
         IN  CASE i = 0 -> <<pixel[3], var_3, var_1>>
               [] i = 1 -> <<var_2, pixel[3], var_1>>
               [] i = 2 -> <<var_1, pixel[3], var_3>>
               [] i = 3 -> <<var_1, var_2, pixel[3]>>
               [] i = 4 -> <<var_3, var_1, pixel[3]>>
               [] OTHER -> <<pixel[3], var_1, var_2>>

\* hues inside [0, 1], at the sector borders and between them, and outside
HsvHues ==
    { Rat(-5, 4), Rat(-1, 4), Rat(-1, 10), Zero, Rat(1, 12), Rat(1, 6), Rat(1, 4),
      Rat(1, 3), Rat(1, 2), Rat(7, 12), Rat(2, 3), Rat(5, 6), Rat(11, 12), One,
      Rat(13, 12), Rat(5, 4), Rat(2, 1), NaN }

HsvSaturations == { Zero, Rat(1, 4), Rat(1, 2), One }

HsvValues == { Zero, Rat(1, 2), Rat(3, 4), One }

InitHsv ==
    /\ input \in { <<h, s, v>> : h \in HsvHues, s \in HsvSaturations, v \in HsvValues }
    /\ src = "HSV"
    /\ dst = "SRGB"
    /\ ncalls = 0
    /\ out = [e \in Compared |-> NoResult]
    /\ CallIdle
    /\ WalkIdle
    /\ StrIdle
    /\ pc = "idle"

\* hsv_to_srgb(input); chunk keeps the number of the branch taken
CallHsvToSrgb ==
    /\ pc = "idle"
    /\ entry' = "hsv_to_srgb"
    /\ buf' = hsv_to_srgb(input)
    /\ chunk' = hsv_case(hsv_var_i(hsv_var_h(input)))
    /\ pc' = "done"
    /\ UNCHANGED <<fromArg, toArg, pixNull, ret, from, to, nch, base>>
    /\ UNCHANGED <<harnessVars, walkVars, strVars>>

NextHsv == CallHsvToSrgb

HsvSpec == InitHsv /\ [][NextHsv]_vars

HsvToSrgbDone == entry = "hsv_to_srgb" /\ pc = "done"

\* floor(hue * 6) mod 6
Sector(hue) == ((6 * hue.n) \div hue.d) % 6

\* C23 as stated: with a saturation that is not 0, hsv_to_srgb takes the
\* case of sector floor(hue * 6) mod 6 for every hue, the hues 1, above 1
\* and below 0 included; with saturation 0 it leaves R = G = B = V.
C23_Sector ==
    HsvToSrgbDone =>
        /\ (~FEq(input[2], Zero) /\ is_finite(input[1])) => chunk = Sector(input[1])
        /\ FEq(input[2], Zero) => buf = <<input[3], input[3], input[3]>>

\* what holds: the sector for a hue in [0, 1], and the achromatic case
C23_SectorInRange ==
    HsvToSrgbDone =>
        /\ (~FEq(input[2], Zero) /\ FLe(Zero, input[1]) /\ FLe(input[1], One)) =>
              chunk = Sector(input[1])
        /\ FEq(input[2], Zero) => buf = <<input[3], input[3], input[3]>>

\* hue 5/4 is in sector 1, and [5/4, 1, 1] has been converted by the last
\* case to [1, 0, 1/2] instead of [1/2, 1, 0]
C23_HueAboveOne ==
    /\ HsvToSrgbDone
    /\ input = <<Rat(5, 4), One, One>>
    /\ Sector(input[1]) = 1
    /\ chunk = 5
    /\ buf = <<One, Zero, Rat(1, 2)>>

----------------------------------------------------------------------------
(* More claims about srgb_to_hsv.                                          *)

\* the largest of the three channels
MaxChannel(p) == CHOOSE c \in {p[1], p[2], p[3]} : \A i \in 1..3 : FLe(p[i], c)
MinChannel(p) == CHOOSE c \in {p[1], p[2], p[3]} : \A i \in 1..3 : FLe(c, p[i])

\* the first channel, counted from 0, that is the largest
FirstMax(p) ==
    CHOOSE i \in 0..2 :
        /\ p[i + 1] = MaxChannel(p)
        /\ \A j \in 0..(i - 1) : p[j + 1] # MaxChannel(p)

\* x modulo 1, in [0, 1)
Mod1(x) == Rat(x.n % x.d, x.d)

\* the hue formula of channel k: k/3 plus the difference of the other two
\* channels over six times the range
HueOfBranch(p, k) ==
    LET range == FSub(MaxChannel(p), MinChannel(p))
        a == p[((k + 1) % 3) + 1]
        b == p[((k + 2) % 3) + 1]
    IN  Mod1(FAdd(Rat(k, 3), FDiv(FSub(a, b), FMul(Rat(6, 1), range))))

\* C24: in srgb_to_hsv with a range that is not 0, the hue branch is that
\* of the first channel, in the order 0, 1, 2, that equals the maximum, so
\* the lower-indexed one of two channels that tie for the maximum; and the
\* value written is the maximum of the input channels.
C24_FirstMaxBranch ==
    HsvDone =>
        /\ buf[3] = MaxChannel(input)
        /\ MaxChannel(input) # MinChannel(input) =>
              /\ chunk = FirstMax(input)
              /\ buf[1] = HueOfBranch(input, FirstMax(input))

\* C24 witness: in [1/2, 1, 1] channels 1 and 2 tie for the maximum;
\* branch 1 has been taken, the hue is 1/2 and the value 1.
C24_Witness ==
    /\ HsvDone
    /\ input = <<Rat(1, 2), One, One>>
    /\ chunk = 1
    /\ buf = <<Rat(1, 2), Rat(1, 2), One>>

----------------------------------------------------------------------------
(* The Helmholtz-Kohlrausch functions.  Hues are whole multiples of 30     *)
(* degrees, so that every angle is a multiple of 15 degrees; sines and     *)
(* cosines are taken from a table with two decimals.                       *)

K_HIGH2022 == << Rat(1644, 10000), Rat(603, 10000), Rat(1307, 10000), Rat(60, 10000) >>

HIGH2023_MEAN == Rat(20956442, 1000000)

\* f32::cos of 0, 15, .. 90 degrees, in units of 1/100
CosTable == << 100, 97, 87, 71, 50, 26, 0 >>

\* f32::to_radians().cos() of a whole multiple of 15 degrees
cos_deg(d) ==
    LET r == d % 360
    IN  IF r <= 90 THEN Rat(CosTable[(r \div 15) + 1], 100)
        ELSE IF r <= 180 THEN Rat(-CosTable[((180 - r) \div 15) + 1], 100)
        ELSE IF r <= 270 THEN Rat(-CosTable[((r - 180) \div 15) + 1], 100)
        ELSE Rat(CosTable[((360 - r) \div 15) + 1], 100)

\* f32::to_radians().sin()
sin_deg(d) == cos_deg(d - 90)

\* f32::abs
FAbs(x) == [n |-> Abs(x.n), d |-> x.d]

\* hk_2023_fby(h), for a hue of h.n degrees
hk_2023_fby(h) ==
    FAdd(FMul(K_HIGH2022[1], FAbs(sin_deg((h.n - 90) \div 2))), K_HIGH2022[2])

\* hk_2023_fr(h)
hk_2023_fr(h) ==
    IF FLe(h, Rat(90, 1)) \/ FLe(Rat(270, 1), h)
    THEN FAdd(FMul(K_HIGH2022[3], FAbs(cos_deg(h.n))), K_HIGH2022[4])
    ELSE Zero

\* hk_high2023(lch)
hk_high2023(lch) == FMul(FAdd(hk_2023_fby(lch[3]), hk_2023_fr(lch[3])), lch[2])

\* an hk_high2023_comp that writes the delta into the chroma channel
hk_high2023_comp_on_chroma(lch) ==
    << lch[1],
       FAdd(lch[2], FMul(FSub(HIGH2023_MEAN, hk_high2023(lch)), FDiv(lch[2], Rat(100, 1)))),
       lch[3] >>

\* hk_high2023_comp(lch): the pixel it leaves
hk_high2023_comp(lch) ==
    << FAdd(lch[1], FMul(FSub(HIGH2023_MEAN, hk_high2023(lch)), FDiv(lch[2], Rat(100, 1)))),
       lch[2],
       lch[3] >>

\* hues from -360 to 720 degrees in steps of 30
HkHues == { Rat(30 * k, 1) : k \in -12..24 }

HkChromas == { Zero, Rat(25, 1), Rat(50, 1), Rat(100, 1) }

HkLightness == { Zero, Rat(50, 1), Rat(100, 1) }

InitHk ==
    /\ input \in { <<l, c, h>> : l \in HkLightness, c \in HkChromas, h \in HkHues }
    /\ src = "CIELCH"
    /\ dst = "CIELCH"
    /\ ncalls = 0
    /\ out = [e \in Compared |-> NoResult]
    /\ CallIdle
    /\ WalkIdle
    /\ StrIdle
    /\ pc = "idle"

\* hk_high2023(&input): buf is the argument after the call, which the
\* function only reads; ret keeps the two terms and the value returned
CallHkHigh2023 ==
    /\ pc = "idle"
    /\ entry' = "hk_high2023"
    /\ buf' = input
    /\ ret' = [fby |-> hk_2023_fby(input[3]), fr |-> hk_2023_fr(input[3]),
               delta |-> hk_high2023(input)]
    /\ pc' = "done"
    /\ UNCHANGED <<fromArg, toArg, pixNull, from, to, nch, chunk, base>>
    /\ UNCHANGED <<harnessVars, walkVars, strVars>>

\* hk_high2023_comp(&mut input)
CallHkHigh2023Comp ==
    /\ pc = "idle"
    /\ entry' = "hk_high2023_comp"
    /\ buf' = hk_high2023_comp(input)
    /\ pc' = "done"
    /\ UNCHANGED <<fromArg, toArg, pixNull, ret, from, to, nch, chunk, base>>
    /\ UNCHANGED <<harnessVars, walkVars, strVars>>

NextHk ==
    \/ CallHkHigh2023
    \/ CallHkHigh2023Comp

HkSpec == InitHk /\ [][NextHk]_vars

HkDone == entry = "hk_high2023" /\ pc = "done"
HkCompDone == entry = "hk_high2023_comp" /\ pc = "done"

\* the hue, taken modulo 360, is within 90 degrees of 0
Within90(h) == h.n % 360 <= 90 \/ h.n % 360 >= 270

\* C25 as stated: in hk_high2023 the cosine term is not 0 exactly for the
\* hues that, modulo 360, are in [270, 360) or [0, 90], hues outside
\* [0, 360) included; the sine term is not 0 for any hue; the value is the
\* sum times chroma, and 0 when chroma is 0.
C25_CosineWindow ==
    HkDone =>
        /\ (ret.fr # Zero) <=> Within90(input[3])
        /\ ret.fby # Zero
        /\ ret.delta = FMul(FAdd(ret.fby, ret.fr), input[2])
        /\ input[2] = Zero => ret.delta = Zero

\* what holds: the same for the hues in [0, 360]
C25_CosineWindowInRange ==
    (HkDone /\ input[3].n \in 0..360) =>
        /\ (ret.fr # Zero) <=> Within90(input[3])
        /\ ret.fby # Zero
        /\ ret.delta = FMul(FAdd(ret.fby, ret.fr), input[2])
        /\ input[2] = Zero => ret.delta = Zero

\* the hue -180, which is 180 modulo 360, has a cosine term of 0.1367
C25_NegativeHue ==
    /\ HkDone
    /\ input[3] = Rat(-180, 1)
    /\ ~Within90(input[3])
    /\ ret.fr = Rat(1367, 10000)

\* C29: hk_high2023_comp leaves chroma and hue as they were and changes
\* lightness only; with chroma 0 it leaves lightness as it was, too; and
\* hk_high2023 leaves its argument as it was.
C29_OnlyLightness ==
    /\ HkCompDone =>
          /\ buf[2] = input[2]
          /\ buf[3] = input[3]
          /\ input[2] = Zero => buf[1] = input[1]
    /\ HkDone => buf = input

\* C29 witness: at hue 90 the delta is (0.0603 + 0.0060) * chroma, and
\* [50, 100, 90] has become [50 + 20.956442 - 6.63, 100, 90].
C29_Witness ==
    /\ HkCompDone
    /\ input = <<Rat(50, 1), Rat(100, 1), Rat(90, 1)>>
    /\ buf = <<Rat(64326442, 1000000), Rat(100, 1), Rat(90, 1)>>

----------------------------------------------------------------------------
(* JzAzBz: the cross-talk mixing of X and Y, and the remap of channel 0.   *)

JZAZBZ_B == Rat(115, 100)
JZAZBZ_G == Rat(66, 100)
JZAZBZ_D == Rat(-56, 100)
\* 1.6295499532821566 * 1e-11 in the source; a power of ten that the
\* integers of the model checker can hold stands in for it
JZAZBZ_D0 == Rat(1, 1000000)

\* xyz_to_jzazbz: the vector handed to matmul3t
jz_mix(pixel) ==
    << FSub(FMul(pixel[1], JZAZBZ_B), FMul(FSub(JZAZBZ_B, One), pixel[3])),
       FSub(FMul(pixel[2], JZAZBZ_G), FMul(FSub(JZAZBZ_G, One), pixel[1])),
       pixel[3] >>

\* an un-mixing that takes the mixed X where it needs the recovered one
jz_unmix_stale_x(pixel) ==
    << FDiv(FAdd(pixel[1], FMul(FSub(JZAZBZ_B, One), pixel[3])), JZAZBZ_B),
       FDiv(FAdd(pixel[2], FMul(FSub(JZAZBZ_G, One), pixel[1])), JZAZBZ_G),
       pixel[3] >>

\* jzazbz_to_xyz: the two assignments after the last matmul3t
jz_unmix(pixel) ==
    LET x == FDiv(FAdd(pixel[1], FMul(FSub(JZAZBZ_B, One), pixel[3])), JZAZBZ_B)
    IN  << x,
           FDiv(FAdd(pixel[2], FMul(FSub(JZAZBZ_G, One), x)), JZAZBZ_G),
           pixel[3] >>

\* xyz_to_jzazbz: channel 0 of the pixel written, from lab[0]
jz_remap(i) ==
    FSub(FDiv(FMul(FAdd(One, JZAZBZ_D), i), FAdd(One, FMul(JZAZBZ_D, i))), JZAZBZ_D0)

\* jzazbz_to_xyz: channel 0 of the vector handed to matmul3t
jz_unremap(j) ==
    FDiv(FAdd(j, JZAZBZ_D0),
         FSub(FAdd(One, JZAZBZ_D), FMul(JZAZBZ_D, FAdd(j, JZAZBZ_D0))))

JzChannel == { Rat(-1, 2), Zero, Rat(1, 4), Rat(1, 2), One, Rat(2, 1) }

\* values of lab[0]; the forward remap divides by 0 at 25/14, which is not
\* among them
JzLightness == { Rat(-1, 1), Zero, Rat(1, 100), Rat(1, 4), Rat(1, 2), One, Rat(3, 2), Rat(2, 1) }

InitJz ==
    /\ input \in { <<x, y, z>> : x \in JzChannel, y \in JzChannel, z \in JzChannel }
                 \cup { <<i>> : i \in JzLightness }
    /\ src = "XYZ"
    /\ dst = "JZAZBZ"
    /\ ncalls = 0
    /\ out = [e \in Compared |-> NoResult]
    /\ CallIdle
    /\ WalkIdle
    /\ StrIdle
    /\ pc = "idle"

\* xyz_to_jzazbz: X and Y are mixed
JzMix ==
    /\ pc = "idle"
    /\ Len(input) = 3
    /\ entry' = "jz_mix"
    /\ buf' = jz_mix(input)
    /\ pc' = "forward"
    /\ UNCHANGED <<fromArg, toArg, pixNull, ret, from, to, nch, chunk, base>>
    /\ UNCHANGED <<harnessVars, walkVars, strVars>>

\* jzazbz_to_xyz: X and Y are recovered
JzUnmix ==
    /\ pc = "forward"
    /\ entry = "jz_mix"
    /\ buf' = jz_unmix(buf)
    /\ pc' = "done"
    /\ UNCHANGED <<entry, fromArg, toArg, pixNull, ret, from, to, nch, chunk, base>>
    /\ UNCHANGED <<harnessVars, walkVars, strVars>>

\* xyz_to_jzazbz: channel 0 is remapped
JzRemap ==
    /\ pc = "idle"
    /\ Len(input) = 1
    /\ entry' = "jz_remap"
    /\ buf' = <<jz_remap(input[1])>>
    /\ pc' = "forward"
    /\ UNCHANGED <<fromArg, toArg, pixNull, ret, from, to, nch, chunk, base>>
    /\ UNCHANGED <<harnessVars, walkVars, strVars>>

\* jzazbz_to_xyz: the remap of channel 0 is undone
JzUnremap ==
    /\ pc = "forward"
    /\ entry = "jz_remap"
    /\ buf' = <<jz_unremap(buf[1])>>
    /\ pc' = "done"
    /\ UNCHANGED <<entry, fromArg, toArg, pixNull, ret, from, to, nch, chunk, base>>
    /\ UNCHANGED <<harnessVars, walkVars, strVars>>

NextJz ==
    \/ JzMix
    \/ JzUnmix
    \/ JzRemap
    \/ JzUnremap

JzSpec == InitJz /\ [][NextJz]_vars

\* C26: in exact arithmetic the un-mixing of jzazbz_to_xyz, X from the
\* mixed X and Z and then Y from the mixed Y and the X just recovered,
\* gives back the X, Y, Z that xyz_to_jzazbz mixed; and the remap of
\* channel 0 in jzazbz_to_xyz gives back the value that xyz_to_jzazbz
\* remapped.
C26_ExactInverse ==
    /\ (entry = "jz_mix" /\ pc = "forward") =>
          /\ buf[1] = FSub(FMul(JZAZBZ_B, input[1]), FMul(FSub(JZAZBZ_B, One), input[3]))
          /\ buf[2] = FSub(FMul(JZAZBZ_G, input[2]), FMul(FSub(JZAZBZ_G, One), input[1]))
    /\ (entry = "jz_mix" /\ pc = "done") => buf = input
    /\ (entry = "jz_remap" /\ pc = "done") => buf = input

\* C26 witness: [1/4, 1/2, 1] has been mixed (to [11/80, 83/200, 1])
\* and recovered.
C26_Witness ==
    /\ entry = "jz_mix"
    /\ pc = "done"
    /\ input = <<Rat(1, 4), Rat(1, 2), One>>
    /\ buf = input

\* the value 1/2 of channel 0 has been remapped and recovered
C26_WitnessRemap ==
    /\ entry = "jz_remap"
    /\ pc = "done"
    /\ input = <<Rat(1, 2)>>
    /\ buf = input

----------------------------------------------------------------------------
(* Walks compared with one another.                                        *)

Reverse(s) == [i \in 1..Len(s) |-> s[Len(s) + 1 - i]]

\* the documented inverse of an edge function
InverseEdge(fn) ==
    CASE fn = "srgb_to_hsv" -> "hsv_to_srgb"     [] fn = "hsv_to_srgb" -> "srgb_to_hsv"
      [] fn = "srgb_to_lrgb" -> "lrgb_to_srgb"   [] fn = "lrgb_to_srgb" -> "srgb_to_lrgb"
      [] fn = "lrgb_to_xyz" -> "xyz_to_lrgb"     [] fn = "xyz_to_lrgb" -> "lrgb_to_xyz"
      [] fn = "xyz_to_lab" -> "lab_to_xyz"       [] fn = "lab_to_xyz" -> "xyz_to_lab"
      [] fn = "xyz_to_oklab" -> "oklab_to_xyz"   [] fn = "oklab_to_xyz" -> "xyz_to_oklab"
      [] fn = "xyz_to_jzazbz" -> "jzazbz_to_xyz" [] fn = "jzazbz_to_xyz" -> "xyz_to_jzazbz"
      [] fn = "lab_to_lch" -> "lch_to_lab"       [] fn = "lch_to_lab" -> "lab_to_lch"
      [] OTHER -> "?"

\* C27: for all spaces A and B, the spaces a walk from A to B has visited
\* are those of the walk from B to A in reverse order, and the edge
\* functions it has applied are the documented inverses of those of the
\* walk from B to A, in reverse order.
C27_ReverseWalk ==
    pc = "ret" =>
        /\ visited = Reverse(WalkSpaces(to, from, MaxPath))
        /\ path = [i \in 1..Len(path) |->
                      InverseEdge(Reverse(WalkEdges(to, from, MaxPath))[i])]
        /\ Len(path) = Len(WalkEdges(to, from, MaxPath))

\* C27 witness: the walk from HSV to JZCZHZ has returned; it began with
\* hsv_to_srgb, and the walk from JZCZHZ to HSV ends with srgb_to_hsv.
C27_Witness ==
    /\ pc = "ret"
    /\ from = "HSV"
    /\ to = "JZCZHZ"
    /\ path = <<"hsv_to_srgb", "srgb_to_lrgb", "lrgb_to_xyz", "xyz_to_jzazbz", "lab_to_lch">>
    /\ WalkEdges(to, from, MaxPath)
         = <<"lch_to_lab", "jzazbz_to_xyz", "xyz_to_lrgb", "lrgb_to_srgb", "srgb_to_hsv">>

\* C28: the edge functions a call of the dispatcher applies are a function
\* of (from, to) alone: they are the same for every entry point, for every
\* number of pixels in the slice, none included, for a first call and for
\* a call after another one.
C28_PathOfFromTo ==
    /\ pc = "ret" => path = WalkEdges(from, to, MaxPath)
    /\ pc = "apply" =>
          /\ Len(path) <= Len(WalkEdges(from, to, MaxPath))
          /\ path = SubSeq(WalkEdges(from, to, MaxPath), 1, Len(path))
    /\ pc = "idle" => WalkIdle

\* C28 witness: a second call, on a slice of no pixels, has selected the
\* four edges from CIELCH to OKLCH.
C28_Witness ==
    /\ pc = "ret"
    /\ ncalls = 2
    /\ entry = "chunked"
    /\ pixels = <<>>
    /\ from = "CIELCH"
    /\ to = "OKLCH"
    /\ path = <<"lch_to_lab", "lab_to_xyz", "xyz_to_oklab", "lab_to_lch">>

\* C30: convert_space_ffi looks at from, then to, then pixels, and returns
\* at the first that is bad: a bad from and a bad to give 1, a good from
\* with a bad to and null pixels gives 2, and 3 is returned only when from
\* and to are both good; when the code returned is not 0 the buffer has
\* not been touched and no conversion has been started.
C30_FirstFailure ==
    entry = "ffi" =>
        /\ (~Names_(fromArg, src) /\ ~Names_(toArg, dst)) => ret = 1
        /\ (Names_(fromArg, src) /\ ~Names_(toArg, dst) /\ pixNull) => ret = 2
        /\ ret = 3 => (Names_(fromArg, src) /\ Names_(toArg, dst) /\ pixNull)
        /\ ret = 2 => Names_(fromArg, src)
        /\ ret # 0 =>
              /\ pc = "done"
              /\ buf = input
              /\ WalkIdle
              /\ chunk = 0

\* C30 witness: from and to are both bad, pixels is null as well, and 1
\* has been returned with the buffer of two pixels as it was.
C30_Witness ==
    /\ entry = "ffi"
    /\ pc = "done"
    /\ ~Names_(fromArg, src)
    /\ ~Names_(toArg, dst)
    /\ pixNull
    /\ ret = 1
    /\ Len(input) = 6
    /\ buf = input

\* from is good, to is bad and pixels is null: 2 has been returned
C30_WitnessTo ==
    /\ entry = "ffi"
    /\ pc = "done"
    /\ Names_(fromArg, src)
    /\ ~Names_(toArg, dst)
    /\ pixNull
    /\ ret = 2

====
